---------------------------- MODULE Spec2Model ----------------------------
(***************************************************************************)
(* A model of the mesh-and-phone monitoring core of AREDN-Phonebook:       *)
(* the probe engine (probe_engine.c), the monitor scheduler and its        *)
(* history ring (mesh_monitor.c), the JSON exporters (health_reporter.c,   *)
(* software_health.c), the self-health monitor (software_health.c) and     *)
(* the SIP response queue (phone_quality_monitor.c).                       *)
(*                                                                         *)
(* Each subsystem has its own next-state relation and specification; the   *)
(* variables of the other subsystems stay unchanged under it.              *)
(***************************************************************************)
EXTENDS Integers, Sequences, FiniteSets, TLC

(***************************************************************************)
(* Bounds of the model.                                                    *)
(***************************************************************************)
\* largest burst size (count) passed to send_probes under SpecProbe
MaxBurst == 2
\* the probe specification stops sending once the table holds this many entries
MaxTable == 4
\* datagrams queued on the sender socket at one time
MaxRx == 2
\* probe cycles the scheduler starts under SpecSched
MaxCycles == 2
\* network_status_interval_s of the configuration, in sleep(5) ticks
IntervalTicks == 2
\* results stored under SpecRing
MaxRecords == 45
\* datagrams queued on the responder socket at one time
MaxInbox == 2
\* crash signals delivered under SpecHealth
MaxSignals == 1
\* documents serialised under SpecExport
MaxExports == 3
\* fprintf calls that write one document
ExportChunks == 2
\* SIP messages accepted under SpecQueue
MaxMessages == 12
\* discovery scans run; lines of a cache file past the size of the cache
MaxScans == 2
ExtraLines == 1
\* the health monitor's clock runs to MaxTicks steps of TickSeconds seconds
MaxTicks == 3
TickSeconds == 15
\* crashes, restarts and errors counted
MaxCrashes == 1
MaxRestarts == 6
MaxErrors == 2
\* test cycles of the phone quality monitor
MaxQmCycles == 2
\* seconds the scheduler's cycles are followed under SpecCycle
MaxSeconds == 3700
\* the resident set size at software_health_init, in KB
InitialRssKb == 2048
\* measurement windows followed under SpecWindow
MaxWindows == 3
\* bursts with entries in the table at one time under SpecTable
MaxTableBursts == 3
\* messages enqueued while dequeuers wait; the last instant of the clock
MaxWaitMessages == 3
MaxClockMs == 2000
\* the longest wait for the answer to an INVITE that is told apart; RTP packets
\* taken from the phone in one media probe
MaxWaitedMs == 12000
MaxRtp == 6
\* echoes of the responder that are counted
MaxEchoes == 8
\* reports of the remote reporter counted after its shutdown was called
MaxReports == 3

(***************************************************************************)
(* Program constants.                                                      *)
(***************************************************************************)
MAX_PENDING_PROBES == 100
\* attempts < 50 in the receive loop of calculate_probe_metrics
MAX_RX_ATTEMPTS == 50
\* rtt_ms < 10000.0: the sanity limit of a sample, in milliseconds
RTT_LIMIT_MS == 10000
PROBE_HISTORY_SIZE == 20
\* send_probes(agents[i].ip, 10, 100) in mesh_monitor_thread
SCHED_PROBE_COUNT == 10
MAX_CRASH_HISTORY == 5
MAX_RESPONSE_QUEUE == 10
MAX_RESPONSE_SIZE == 4096

\* addresses a target can resolve to
IPs == {"10.0.0.1", "10.0.0.2"}
\* The mesh name service: what getaddrinfo answers for <host>.local.mesh
\* ("" : the name does not resolve).
DNS == [h \in {"10.0.0.1", "10.0.0.2", "nodeA", "10.0.0.9"} |->
            CASE h = "10.0.0.1" -> "10.0.0.1"
              [] h = "10.0.0.2" -> "10.0.0.2"
              [] h = "nodeA"    -> "10.0.0.1"
              [] OTHER          -> ""]
Hosts == DOMAIN DNS
\* the RTT, in ms, that recv_time - embedded send time can come out as:
\* negative (clock skew), two in-range values, and one past the limit
RttVals == {-1, 2, 7, 10000}

VARIABLES
    \* ---- probe engine (probe_engine.c) ----
    engine_running,     \* static bool engine_running
    probe_socket,       \* static int probe_socket (-1: closed)
    pending_probes,     \* pending_probes[0 .. pending_probe_count-1]
    probe_rx,           \* datagrams queued on probe_socket, oldest first
    result,             \* out-parameter and return value of the last calculate_probe_metrics
    send_ret,           \* return value of the last send_probes
    window,             \* history variable: what the last calculate_probe_metrics saw
    \* ---- monitor scheduler (mesh_monitor.c) ----
    monitor_enabled,    \* static bool monitor_enabled
    monitor_running,    \* static bool monitor_running
    responder,          \* the responder thread behind responder_tid: "running" / "exited"
    probe_history,      \* probe_history[0 .. PROBE_HISTORY_SIZE-1]
    probe_history_index,
    stored,             \* history variable: results stored so far, oldest first
    recent,             \* what the last get_recent_probes returned
    agent_cache,        \* agent_discovery.c: agent_cache[0 .. agent_count-1].ip
    sched_pc,           \* where mesh_monitor_thread stands
    sched_i,            \* its loop variable i (1-based)
    agents,             \* its local copy agents[]
    since_probe,        \* (now - last_probe_time) in sleep(5) ticks
    cycles,             \* probe cycles started
    clock,              \* time(NULL), advanced by each measurement
    shut_pc,            \* where the caller of mesh_monitor_shutdown stands
    \* ---- probe responder (probe_engine.c) ----
    resp_inbox,         \* datagrams queued on responder_socket, oldest first
    resp_last,          \* what the responder did with the last datagram it read
    \* ---- software health monitor (software_health.c) ----
    health_enabled,     \* static bool health_enabled
    g_health_mutex,     \* the thread owning g_health_mutex, "free" if none
    call_stack,         \* per thread: the frames <<function, next instruction>>
    crash_disposition,  \* what SIGSEGV/SIGBUS/SIGFPE/SIGABRT are set to
    g_crash_history,    \* g_crash_history[0 .. g_crash_history_count-1]
    crash_json,         \* per thread: the json buffer of export_crash_to_json
    crash_file,         \* crash reports in /tmp/meshmon_crashes.json
    signals,            \* crash signals delivered so far
    process,            \* "running" / "killed" (by the re-raised signal)
    \* ---- JSON exporters (health_reporter.c, software_health.c) ----
    files,              \* the file system: path -> content
    export_pc,          \* per exporter: where its export call stands
    exports,            \* documents serialised so far
    \* ---- SIP response queue (phone_quality_monitor.c) ----
    g_response_queue,   \* g_response_queue[0 .. MAX_RESPONSE_QUEUE-1]
    g_response_queue_read,
    g_response_queue_write,
    enqueued,           \* messages accepted so far: the next message is enqueued + 1
    delivered,          \* messages handed to the dequeueing thread so far
    dequeue_ret,        \* what the last quality_monitor_dequeue_response returned
    \* ---- agent discovery cache (agent_discovery.c) ----
    cache_file,         \* /tmp/aredn_agent_cache.txt: its lines, or absent
    agent_entries,      \* agent_cache[0 .. agent_count-1], the whole entries
    discovery_initialized, \* static bool discovery_initialized
    scans,              \* discovery scans run so far
    disc_ret,           \* what the last call into agent discovery returned
    \* ---- health records (software_health.c) ----
    g_thread_health,    \* g_thread_health[0 .. MAX_THREADS-1]: tid, last_heartbeat, is_responsive
    htime,              \* time(NULL) as the health monitor reads it, in seconds
    beat_at,            \* history variable: per thread id, when it last called update_thread_heartbeat (or registered), -1 if never
    leak_suspected,     \* g_memory_health.leak_suspected
    crash_count_24h,    \* g_process_health.crash_count_24h
    restart_count,      \* g_process_health.restart_count
    g_error_tracker,    \* the counters of g_error_tracker
    errors_recorded,    \* history variable: record_error_event calls since the hourly counters were last zeroed
    health_ret,         \* what the last score query returned, while the records stand as they were
    \* ---- phone quality cycle (phone_quality_monitor.c) ----
    registered_users,   \* the registrar's user table: user_id per slot, "" if free
    registered_users_mutex,\* the thread owning registered_users_mutex, "free" if none
    registrar_pc,       \* a registrar thread: "idle", "waiting" for the lock, "holding" it
    g_monitor_running,  \* static volatile int g_monitor_running
    qm_pc,              \* where quality_monitor_thread stands
    qm_i,               \* its loop variable i (1-based)
    users_to_test,      \* its local array users_to_test[0 .. test_count-1]
    g_quality_records,  \* the phone numbers with a valid record
    quality_file,       \* /tmp/phone_quality.json: the document and the chunks written
    qm_cycles,          \* test cycles started
    \* ---- probe and discovery cycles of the scheduler (mesh_monitor.c) ----
    mm_pc,              \* mesh_monitor_thread: "config" before it runs, "loop", "stopped"
    mm_now,             \* seconds since the thread started
    last_probe_time,    \* its local last_probe_time
    last_discovery_time,\* its local last_discovery_time
    neighbor_targets,   \* g_monitor_config.neighbor_targets
    discovered,         \* the addresses get_discovered_agents returns, in cache order
    probe_cycle,        \* the last probe cycle: its time, the agents found, the targets probed, whether a scan was started
    last_scan_at,       \* the time the last discovery scan was started, -1 if none was
    \* ---- memory record (software_health.c) ----
    g_memory_health,    \* g_memory_health but its leak_suspected; sizes in KB, the growth rate as a fraction
    \* ---- link classification (routing_adapter.c) ----
    link_call,          \* the last classify_link_type call: its argument and what it returned
    link_prev,          \* the call before it
    \* ---- which window a probe and an echo belong to (bookkeeping for SpecWindow) ----
    window_no,          \* the number of the window under way: calculate_probe_metrics calls made, plus one
    probes_sent,        \* the probes sent so far, as <<window, sequence>>
    rx_window,          \* for each datagram of probe_rx, the window of the probe it echoes
    \* ---- the steps of one probe cycle (mesh_monitor.c) ----
    ord_pc,             \* the statement of the probe cycle mesh_monitor_thread is at
    ord_i,              \* its loop variable i (1-based)
    ord_agents,         \* agents[0 .. agent_count-1] of the cycle
    ord_sent,           \* probes_sent of the target under way
    ord_calc,           \* calc_result of the target under way
    ord_log,            \* the calls of the cycle so far, in order
    ord_cycles,         \* probe cycles started
    \* ---- the history ring under its lock (mesh_monitor.c) ----
    history_mutex,      \* the thread owning history_mutex, "free" if none
    wr_pc,              \* the scheduler at its store: "idle", "locked", "copying", "stored"
    rd_pc,              \* a reader in get_recent_probes: "idle", "locked", "copied"
    \* ---- dequeuers waiting on g_response_queue_cond (phone_quality_monitor.c) ----
    clock_ms,           \* CLOCK_REALTIME, in milliseconds
    dq,                 \* each dequeuing thread: where it is in quality_monitor_dequeue_response, its deadline ts, what it returned
    returned,           \* the ids of the messages returned so far, in the order of the returns
    \* ---- the media probe test_phone_quality (sip_quality_lib.c) ----
    call_pc,            \* where test_phone_quality is: "idle", "invite" (in send_invite's loop), "answered", "media", "returned"
    got_180,            \* got_180 of send_invite
    call_status,        \* result->status
    call_ret,           \* what test_phone_quality returned
    sip_sent,           \* the SIP requests sent on sip_sock, in order
    sip_response,       \* the buffer sip_response: the last datagram received
    invite_event,       \* what the last pass of send_invite's loop met, and the status codes received before it
    invite_waited,      \* milliseconds since the INVITE was sent
    rtp_stats,          \* rtp_stats of test_phone_quality, the jitter apart
    loss_report,        \* expected, result->packets_lost, result->loss_fraction
    \* ---- the responder thread at shutdown (probe_engine.c) ----
    responder_socket,   \* responder_socket: 4 while open, -1 once closed
    resp_pc,            \* where probe_responder_thread is: "test", "recv", "sleep", "send", "exited"
    resp_echoes,        \* echoes the responder has sent
    \* ---- the remote reporter (remote_reporter.c) ----
    reporter_running,   \* reporter_running
    rep_pc,             \* where remote_reporter_thread is: "created", "test", "report", "sleep", "exited"
    rep_shutdown,       \* remote_reporter_shutdown: "no" not called, "early" called before the thread set its flag, "late" called after
    since_health,       \* seconds since last_health_report, up to 60
    since_network,      \* seconds since last_network_report, up to report_interval_s
    rep_sent,           \* reports sent since the shutdown was called
    \* ---- start-up of the mesh monitor (mesh_monitor.c, routing_adapter.c) ----
    init_pc,            \* where mesh_monitor_init is: "idle", "adapter", "engine", "discovery", "thread", "returned"
    g_monitor_config,   \* enabled, mode and routing_daemon of g_monitor_config
    adapter_initialized,\* routing_adapter.c: static bool adapter_initialized
    current_daemon,     \* routing_adapter.c: static routing_daemon_t current_daemon
    init_steps,         \* history variable: the steps mesh_monitor_init has taken and what each returned
    init_ret            \* what mesh_monitor_init returned

probeVars == <<engine_running, probe_socket, pending_probes, probe_rx,
               result, send_ret, window>>
ringVars == <<probe_history, probe_history_index, stored, recent, clock>>
schedVars == <<monitor_enabled, monitor_running, responder, agent_cache,
               sched_pc, sched_i, agents, since_probe, cycles, shut_pc>>

respVars == <<resp_inbox, resp_last>>

healthVars == <<health_enabled, g_health_mutex, call_stack, crash_disposition,
                g_crash_history, crash_json, crash_file, signals,
                   process>>

exportVars == <<files, export_pc, exports>>

queueVars == <<g_response_queue, g_response_queue_read, g_response_queue_write,
               enqueued, delivered, dequeue_ret>>

cacheVars == <<cache_file, agent_entries, discovery_initialized, scans,
               disc_ret>>

recordVars == <<g_thread_health, htime, beat_at, leak_suspected,
                crash_count_24h, restart_count, g_error_tracker,
                errors_recorded, health_ret>>

qualityVars == <<registered_users, registered_users_mutex, registrar_pc,
                 g_monitor_running, qm_pc, qm_i, users_to_test,
                 g_quality_records, quality_file, qm_cycles>>

cycleVars == <<mm_pc, mm_now, last_probe_time, last_discovery_time,
               neighbor_targets, discovered, probe_cycle, last_scan_at>>

memVars == <<g_memory_health>>

linkVars == <<link_call, link_prev>>

windowVars == <<window_no, probes_sent, rx_window>>

orderVars == <<ord_pc, ord_i, ord_agents, ord_sent, ord_calc, ord_log,
               ord_cycles>>

readerVars == <<history_mutex, wr_pc, rd_pc>>

waitVars == <<clock_ms, dq, returned>>

callVars == <<call_pc, got_180, call_status, call_ret, sip_sent,
              sip_response, invite_event, invite_waited,
             rtp_stats, loss_report>>

joinVars == <<responder_socket, resp_pc, resp_echoes>>

reporterVars == <<reporter_running, rep_pc, rep_shutdown, since_health,
                  since_network, rep_sent>>

bootVars == <<init_pc, g_monitor_config, adapter_initialized, current_daemon,
              init_steps, init_ret>>

vars == <<probeVars, ringVars, schedVars, respVars, healthVars, exportVars,
          queueVars, cacheVars, recordVars, qualityVars, cycleVars, memVars,
          linkVars, windowVars, orderVars, readerVars, waitVars, callVars,
          joinVars, reporterVars, bootVars>>

(***************************************************************************)
(* Rationals, for the float results: <<n, d>> with d > 0.                  *)
(***************************************************************************)
Rat(n, d) == <<n, d>>
RatEq(a, b) == a[1] * b[2] = b[1] * a[2]
RatLt(a, b) == a[1] * b[2] < b[1] * a[2]
Abs(x) == IF x < 0 THEN -x ELSE x

RECURSIVE SumSeq(_)
SumSeq(s) == IF s = <<>> THEN 0 ELSE Head(s) + SumSeq(Tail(s))

\* sum over i = 1 .. rtt_count-1 of |rtt_samples[i] - rtt_samples[i-1]|
RECURSIVE JitterSum(_)
JitterSum(s) ==
    IF Len(s) < 2 THEN 0
    ELSE Abs(s[2] - s[1]) + JitterSum(Tail(s))

(***************************************************************************)
(* Probe engine.                                                           *)
(***************************************************************************)
pending_probe_count == Len(pending_probes)

NoResult == [called |-> FALSE]
NoWindow == [dst_ip |-> "", expected |-> 0, sent_to_target |-> 0, matched |-> <<>>]

\* The entries send_probes appends for one burst: packet i is recorded when
\* its sendto succeeded (i \in okSet) and the table is not full.
RECURSIVE TrackPending(_, _, _, _, _)
TrackPending(pend, resolved_ip, i, count, okSet) ==
    IF i >= count THEN pend
    ELSE IF i \in okSet /\ Len(pend) < MAX_PENDING_PROBES
         THEN TrackPending(Append(pend, [sequence |-> i, dst_ip |-> resolved_ip]),
                           resolved_ip, i + 1, count, okSet)
         ELSE TrackPending(pend, resolved_ip, i + 1, count, okSet)

\* send_probes' return value: sent++ for every packet whose sendto succeeded
SentCount(count, okSet) == Cardinality(okSet \cap (0 .. count - 1))

\* Index of the first pending entry with this sequence and target, 0 if none
\* (the for loop with its break).
FindPending(pend, seq, dst_ip) ==
    LET hits == {i \in 1 .. Len(pend) :
                    pend[i].sequence = seq /\ pend[i].dst_ip = dst_ip}
    IN IF hits = {} THEN 0 ELSE CHOOSE i \in hits : \A j \in hits : i <= j

\* The sanity check of one sample
RttInRange(rtt_ms) == rtt_ms >= 0 /\ rtt_ms < RTT_LIMIT_MS

\* The receive loop: datagrams are taken in arrival order while
\* rtt_count < expected_responses; pkts[k] arrives with RTT rtts[k].
\* acc.samples is rtt_samples[0 .. rtt_count-1], acc.matched the index of the
\* pending entry each sample was matched against, acc.used the datagrams read.
RECURSIVE RxLoop(_, _, _, _, _, _)
RxLoop(pkts, rtts, pend, dst_ip, expected, acc) ==
    IF pkts = <<>> \/ Len(acc.samples) >= expected THEN acc
    ELSE LET pkt == Head(pkts)
             i   == FindPending(pend, pkt.sequence, dst_ip)
             hit == pkt.size = "full" /\ i # 0 /\ RttInRange(Head(rtts))
             nxt == [samples |-> IF hit THEN Append(acc.samples, Head(rtts))
                                        ELSE acc.samples,
                     matched |-> IF hit THEN Append(acc.matched, i)
                                        ELSE acc.matched,
                     used    |-> acc.used + 1]
         IN RxLoop(Tail(pkts), Tail(rtts), pend, dst_ip, expected, nxt)

\* loss_pct as computed at lines 418-449
LossPct(rtt_count, expected_responses) ==
    IF rtt_count > 0 /\ expected_responses > 0
    THEN Rat(100 * (expected_responses - rtt_count), expected_responses)
    ELSE Rat(100, 1)

\* a clearing that empties the table
ClearEveryTarget(pend, dst_ip) == <<>>
\* Clear pending probes for this destination (the compaction loop)
ClearPending(pend, dst_ip) == SelectSeq(pend, LAMBDA e : e.dst_ip # dst_ip)

\* A calculate_probe_metrics that treats a window without samples as a failure
CalcMetricsSilenceFails(pend, dst_ip, pkts, rtts, now) ==
    LET expected == Len(pend)
        rx == RxLoop(pkts, rtts, pend, dst_ip, expected,
                     [samples |-> <<>>, matched |-> <<>>, used |-> 0])
        n  == Len(rx.samples)
    IN [ret |-> IF expected = 0 \/ n = 0 THEN -1 ELSE 0,
        dst_ip |-> dst_ip, timestamp |-> now,
        loss_pct |-> LossPct(n, expected),
        rtt_ms_avg |-> IF n > 0 THEN Rat(SumSeq(rx.samples), n) ELSE Rat(0, 1),
        jitter_ms |-> IF n > 1 THEN Rat(JitterSum(rx.samples), n - 1)
                               ELSE Rat(0, 1),
        rtt_count |-> n, used |-> rx.used, matched |-> rx.matched]

\* calculate_probe_metrics(dst_ip, &result) on table pend, reading pkts
CalcMetrics(pend, dst_ip, pkts, rtts, now) ==
    LET expected == Len(pend)
        rx == RxLoop(pkts, rtts, pend, dst_ip, expected,
                     [samples |-> <<>>, matched |-> <<>>, used |-> 0])
        n  == Len(rx.samples)
    IN IF expected = 0
       THEN [ret |-> -1, dst_ip |-> dst_ip, timestamp |-> now,
             loss_pct |-> Rat(0, 1), rtt_ms_avg |-> Rat(0, 1),
             jitter_ms |-> Rat(0, 1), rtt_count |-> 0, used |-> 0,
             matched |-> <<>>]
       ELSE [ret |-> 0, dst_ip |-> dst_ip, timestamp |-> now,
             loss_pct |-> LossPct(n, expected),
             rtt_ms_avg |-> IF n > 0 THEN Rat(SumSeq(rx.samples), n) ELSE Rat(0, 1),
             jitter_ms |-> IF n > 1 THEN Rat(JitterSum(rx.samples), n - 1)
                                    ELSE Rat(0, 1),
             rtt_count |-> n, used |-> rx.used, matched |-> rx.matched]

\* ---------------------------------------------------------------- actions
\* result, send_ret and window describe the call that has just returned: the
\* next step of the engine's caller or of the network overwrites them.

NoSend == [called |-> FALSE]

\* send_probes(dst_hostname, count, interval_ms); okSet are the packets whose
\* sendto succeeds.
SendProbes(dst_hostname, count, okSet) ==
    /\ IF ~engine_running \/ probe_socket < 0 \/ DNS[dst_hostname] = ""
       THEN /\ send_ret' = [called |-> TRUE, dst_hostname |-> dst_hostname,
                            ret |-> -1, added |-> 0]
            /\ UNCHANGED pending_probes
       ELSE /\ pending_probes' = TrackPending(pending_probes, DNS[dst_hostname],
                                              0, count, okSet)
            /\ send_ret' = [called |-> TRUE, dst_hostname |-> dst_hostname,
                            ret |-> SentCount(count, okSet),
                            added |-> Len(pending_probes') - Len(pending_probes)]
    /\ UNCHANGED <<engine_running, probe_socket, probe_rx>>

\* A datagram arrives on the sender socket: an echo carrying a sequence number,
\* delayed or duplicated by the network as it may be, or a datagram shorter
\* than a probe packet.
EchoArrives(seq, size) ==
    /\ probe_socket >= 0
    /\ Len(probe_rx) < MaxRx
    /\ probe_rx' = Append(probe_rx, [sequence |-> seq, size |-> size])
    /\ UNCHANGED <<engine_running, probe_socket, pending_probes>>

\* The datagrams the receive loop can read: one per attempt
RxAvailable(rx) ==
    SubSeq(rx, 1, IF Len(rx) < MAX_RX_ATTEMPTS THEN Len(rx) ELSE MAX_RX_ATTEMPTS)

\* calculate_probe_metrics(dst_ip, &result); rtts[k] is the round-trip time the
\* k-th datagram read comes out with.
CalculateProbeMetrics(dst_ip, rtts, now) ==
    LET pkts == RxAvailable(probe_rx)
        res  == CalcMetrics(pending_probes, dst_ip, pkts, rtts, now)
    IN /\ result' = [called |-> TRUE, ret |-> res.ret, dst_ip |-> res.dst_ip,
                     timestamp |-> res.timestamp,
                     loss_pct |-> res.loss_pct, rtt_ms_avg |-> res.rtt_ms_avg,
                     jitter_ms |-> res.jitter_ms, rtt_count |-> res.rtt_count]
       /\ window' = [dst_ip |-> dst_ip,
                     expected |-> Len(pending_probes),
                     sent_to_target |->
                        Len(SelectSeq(pending_probes, LAMBDA e : e.dst_ip = dst_ip)),
                     matched |-> res.matched]
       /\ probe_rx' = SubSeq(probe_rx, res.used + 1, Len(probe_rx))
       /\ pending_probes' = IF res.ret = 0 THEN ClearPending(pending_probes, dst_ip)
                                            ELSE pending_probes
       /\ UNCHANGED <<engine_running, probe_socket>>

\* The three operations as the probe specification takes them
ProbeSend(dst_hostname, count, okSet) ==
    /\ Len(pending_probes) + count <= MaxTable
    /\ SendProbes(dst_hostname, count, okSet)
    /\ result' = NoResult
    /\ window' = NoWindow

\* the bursts that have entries in the table: an entry starts a burst when
\* its sequence number does not continue the one before it
BurstsIn(pend) ==
    Cardinality({i \in 1 .. Len(pend) :
                    \/ i = 1
                    \/ pend[i].sequence <= pend[i - 1].sequence
                    \/ pend[i].dst_ip # pend[i - 1].dst_ip})
\* send_probes called whatever room the table has
TableSend(dst_hostname, count, okSet) ==
    /\ BurstsIn(pending_probes) < MaxTableBursts
    /\ SendProbes(dst_hostname, count, okSet)
    /\ result' = NoResult
    /\ window' = NoWindow

ProbeEcho(seq, size) ==
    /\ EchoArrives(seq, size)
    /\ result' = NoResult
    /\ window' = NoWindow
    /\ send_ret' = NoSend

ProbeCalc(dst_ip, rtts) ==
    /\ CalculateProbeMetrics(dst_ip, rtts, 1)
    /\ send_ret' = NoSend

InitProbe ==
    /\ engine_running = TRUE
    /\ probe_socket = 3
    /\ pending_probes = <<>>
    /\ probe_rx = <<>>
    /\ result = NoResult
    /\ send_ret = NoSend
    /\ window = NoWindow

(***************************************************************************)
(* History ring (mesh_monitor.c).                                          *)
(***************************************************************************)
\* A zero-initialised probe_result_t: timestamp 0 marks an empty slot
EmptySlot == [timestamp |-> 0]

\* memcpy(&probe_history[probe_history_index], &result, sizeof(probe_result_t))
StoreResult(hist, idx, res) == [hist EXCEPT ![idx] = res]
\* A store that leaves probe_history_index where it is
SameIndex(idx) == idx

\* probe_history_index = (probe_history_index + 1) % PROBE_HISTORY_SIZE
NextIndex(idx) == (idx + 1) % PROBE_HISTORY_SIZE

\* The part of probe_result_t that calculate_probe_metrics fills
StoredResult(res) ==
    [timestamp |-> res.timestamp, dst_ip |-> res.dst_ip,
     loss_pct |-> res.loss_pct, rtt_ms_avg |-> res.rtt_ms_avg,
     jitter_ms |-> res.jitter_ms]

\* The store under history_mutex in mesh_monitor_thread
RecordResult(res) ==
    /\ probe_history' = StoreResult(probe_history, probe_history_index, res)
    /\ probe_history_index' = NextIndex(probe_history_index)
    /\ stored' = Append(stored, res)

\* get_recent_probes: walk back from the most recent slot, skip empty slots
RECURSIVE RecentFrom(_, _, _, _)
RecentFrom(hist, idx, i, max_results) ==
    IF i >= PROBE_HISTORY_SIZE \/ max_results <= 0 THEN <<>>
    ELSE LET index == (idx - 1 - i + PROBE_HISTORY_SIZE) % PROBE_HISTORY_SIZE
         IN IF hist[index].timestamp # 0
            THEN <<hist[index]>> \o RecentFrom(hist, idx, i + 1, max_results - 1)
            ELSE RecentFrom(hist, idx, i + 1, max_results)

NoRecent == [called |-> FALSE]

GetRecentProbes(max_results) ==
    /\ recent' = [called |-> TRUE, max_results |-> max_results,
                  results |-> RecentFrom(probe_history, probe_history_index,
                                         0, max_results)]
    /\ UNCHANGED <<probe_history, probe_history_index, stored, clock>>

InitRing ==
    /\ probe_history = [i \in 0 .. PROBE_HISTORY_SIZE - 1 |-> EmptySlot]
    /\ probe_history_index = 0
    /\ stored = <<>>
    /\ recent = NoRecent
    /\ clock = 0

(***************************************************************************)
(* Monitor scheduler: mesh_monitor_thread and mesh_monitor_shutdown.       *)
(***************************************************************************)
\* What agent_discovery_init has loaded from the cache file: an agent whose
\* name no longer resolves and one that does. The
\* periodic scan is switched off (if (0 && ...)) and the on-demand scan runs
\* only on an empty cache, so a loaded cache stays as it is.
AgentCache == <<"10.0.0.9", "10.0.0.1">>

\* if (!monitor_enabled) return NULL;
SchedStart ==
    /\ sched_pc = "start"
    /\ sched_pc' = IF monitor_enabled THEN "set_running" ELSE "exited"
    /\ UNCHANGED <<probeVars, ringVars, monitor_enabled, monitor_running,
                   responder, agent_cache, sched_i, agents, since_probe,
                   cycles, shut_pc>>

\* monitor_running = true; last_probe_time = now - interval - 1
SchedSetRunning ==
    /\ sched_pc = "set_running"
    /\ monitor_running' = TRUE
    /\ since_probe' = IntervalTicks
    /\ sched_pc' = "loop"
    /\ UNCHANGED <<probeVars, ringVars, monitor_enabled, responder,
                   agent_cache, sched_i, agents, cycles, shut_pc>>

\* while (monitor_running) { if (now - last_probe_time >= interval) {
\*     agent_count = get_discovered_agents(agents, MAX_DISCOVERED_AGENTS);
SchedLoop ==
    /\ sched_pc = "loop"
    /\ IF ~monitor_running
       THEN /\ sched_pc' = "exited"
            /\ UNCHANGED <<agents, sched_i, cycles>>
       ELSE IF since_probe >= IntervalTicks /\ cycles < MaxCycles
       THEN /\ agents' = agent_cache
            /\ sched_i' = 1
            /\ cycles' = cycles + 1
            /\ sched_pc' = "send"
       ELSE /\ sched_pc' = "sleep"
            /\ UNCHANGED <<agents, sched_i, cycles>>
    /\ UNCHANGED <<probeVars, ringVars, monitor_enabled, monitor_running,
                   responder, agent_cache, since_probe, shut_pc>>

\* for (i < agent_count): probes_sent = send_probes(agents[i].ip, 10, 100);
\* every sendto fails once the socket is closed
SchedSend(okSet) ==
    /\ sched_pc = "send"
    /\ sched_i <= Len(agents)
    /\ SendProbes(agents[sched_i], SCHED_PROBE_COUNT,
                  IF probe_socket < 0 THEN {} ELSE okSet)
    /\ IF send_ret'.ret > 0
       THEN sched_pc' = "measure" /\ UNCHANGED sched_i
       ELSE sched_pc' = "send" /\ sched_i' = sched_i + 1
    /\ UNCHANGED <<result, window, ringVars, monitor_enabled, monitor_running,
                   responder, agent_cache, agents, since_probe, cycles, shut_pc>>

\* sleep(probe_window_s);
\* calc_result = calculate_probe_metrics(agents[i].ip, &result);
SchedMeasure(rtts) ==
    /\ sched_pc = "measure"
    /\ CalculateProbeMetrics(agents[sched_i], rtts, clock + 1)
    /\ clock' = clock + 1
    /\ sched_pc' = "measured"
    /\ UNCHANGED <<send_ret, probe_history, probe_history_index, stored, recent,
                   monitor_enabled, monitor_running, responder, agent_cache,
                   sched_i, agents, since_probe, cycles, shut_pc>>

\* if (calc_result == 0) { ... store in history ... }; the next target
SchedRecord ==
    /\ sched_pc = "measured"
    /\ IF result.ret = 0
       THEN RecordResult(StoredResult(result))
       ELSE UNCHANGED <<probe_history, probe_history_index, stored>>
    /\ sched_i' = sched_i + 1
    /\ sched_pc' = "send"
    /\ UNCHANGED <<probeVars, recent, clock, monitor_enabled, monitor_running,
                   responder, agent_cache, agents, since_probe, cycles, shut_pc>>

\* after the loop over the targets:
\* export_network_to_json("/tmp/meshmon_network.json"); last_probe_time = now
SchedCycleEnd ==
    /\ sched_pc = "send"
    /\ sched_i > Len(agents)
    /\ since_probe' = 0
    /\ sched_pc' = "sleep"
    /\ UNCHANGED <<probeVars, ringVars, monitor_enabled, monitor_running,
                   responder, agent_cache, sched_i, agents, cycles, shut_pc>>

\* sleep(5)
SchedSleep ==
    /\ sched_pc = "sleep"
    /\ since_probe' = IF since_probe < IntervalTicks THEN since_probe + 1
                                                     ELSE since_probe
    /\ sched_pc' = "loop"
    /\ UNCHANGED <<probeVars, ringVars, monitor_enabled, monitor_running,
                   responder, agent_cache, sched_i, agents, cycles, shut_pc>>

\* mesh_monitor_shutdown: if (!monitor_enabled) return; monitor_running = false;
ShutdownBegin ==
    /\ shut_pc = "idle"
    /\ IF monitor_enabled
       THEN monitor_running' = FALSE /\ shut_pc' = "stop_engine"
       ELSE UNCHANGED monitor_running /\ shut_pc' = "returned"
    /\ UNCHANGED <<probeVars, ringVars, monitor_enabled, responder, agent_cache,
                   sched_pc, sched_i, agents, since_probe, cycles>>

\* probe_engine_shutdown(): engine_running = false; close(probe_socket);
\* probe_socket = -1. Datagrams queued on the closed socket are gone.
ProbeEngineShutdown ==
    /\ shut_pc = "stop_engine"
    /\ engine_running' = FALSE
    /\ probe_socket' = -1
    /\ probe_rx' = <<>>
    /\ shut_pc' = "join"
    /\ UNCHANGED <<pending_probes, result, send_ret, window, ringVars,
                   monitor_enabled, monitor_running, responder, agent_cache,
                   sched_pc, sched_i, agents, since_probe, cycles>>

\* probe_responder_thread: while (engine_running) { ... } return NULL;
ResponderExit ==
    /\ responder = "running"
    /\ ~engine_running
    /\ responder' = "exited"
    /\ UNCHANGED <<probeVars, ringVars, monitor_enabled, monitor_running,
                   agent_cache, sched_pc, sched_i, agents, since_probe, cycles,
                   shut_pc>>

\* pthread_join(responder_tid, NULL); routing_adapter_shutdown();
\* monitor_enabled = false; return
ShutdownFinish ==
    /\ shut_pc = "join"
    /\ responder = "exited"
    /\ monitor_enabled' = FALSE
    /\ shut_pc' = "returned"
    /\ UNCHANGED <<probeVars, ringVars, monitor_running, responder, agent_cache,
                   sched_pc, sched_i, agents, since_probe, cycles>>

\* An echo reaches the sender socket while the scheduler runs
SchedEcho(seq, size) ==
    /\ EchoArrives(seq, size)
    /\ UNCHANGED <<result, send_ret, window, ringVars, schedVars>>

\* the state mesh_monitor_init leaves behind, the scheduler thread created
InitSched ==
    /\ monitor_enabled = TRUE
    /\ monitor_running = FALSE
    /\ responder = "running"
    /\ agent_cache = AgentCache
    /\ sched_pc = "start"
    /\ sched_i = 1
    /\ agents = <<>>
    /\ since_probe = 0
    /\ cycles = 0
    /\ shut_pc = "idle"

(***************************************************************************)
(* Probe responder: probe_responder_thread.                                *)
(***************************************************************************)
\* inet_pton(AF_INET, text, &addr): the text is given by its dot-separated
\* decimal fields; four fields of 0 .. 255 convert to the 32-bit address,
\* anything else is refused.
InetPton(fields) ==
    IF Len(fields) = 4 /\ \A k \in 1 .. 4 : fields[k] \in 0 .. 255
    THEN [ok |-> TRUE,
          addr |-> ((fields[1] * 256 + fields[2]) * 256 + fields[3]) * 256
                      + fields[4]]
    ELSE [ok |-> FALSE, addr |-> 0]

\* return_ip texts a probe can carry: a node's address, an octet out of
\* range, a truncated address
ReturnIps == { <<10, 0, 0, 1>>, <<10, 0, 0, 256>>, <<10, 0, 0>> }
\* return_port values (network byte order, copied as they are)
ReturnPorts == {40050}
\* UDP source address and port of a received datagram
SrcAddrs == { [addr |-> InetPton(<<10, 0, 0, 1>>).addr, port |-> 33000],
              [addr |-> InetPton(<<10, 0, 0, 7>>).addr, port |-> 40000] }
\* sizeof(probe_packet_t): packed, 3 * 4 + 64 + 16 + 2 bytes
SizeofProbePacket == 94
\* char buffer[1024] of probe_responder_thread
RespBufferSize == 1024
\* Datagrams reaching the responder socket, n bytes long: probes of the
\* exact size with any return address from either source, and datagrams one
\* byte short, one byte long and longer than the buffer
RespDatagrams ==
    [n : {SizeofProbePacket}, return_ip : ReturnIps,
     return_port : ReturnPorts, src : SrcAddrs]
    \cup [n : {SizeofProbePacket - 1, SizeofProbePacket + 1,
               RespBufferSize + 1},
          return_ip : ReturnIps, return_port : ReturnPorts,
          src : {[addr |-> InetPton(<<10, 0, 0, 7>>).addr, port |-> 40000]}]

\* n = recvfrom(responder_socket, buffer, sizeof(buffer), ...): a datagram
\* longer than the buffer is cut to the buffer
Recvfrom(len) == IF len < RespBufferSize THEN len ELSE RespBufferSize

NoHandled == [handled |-> FALSE]

\* A responder that answers to where the datagram came from
ReturnAddrFromSource(pkt, src_addr) == src_addr

\* The destination of the echo: return_addr built from the payload
ReturnAddr(pkt, src_addr) ==
    [addr |-> InetPton(pkt.return_ip).addr, port |-> pkt.return_port]

\* One iteration of the loop on a datagram dg: size check, inet_pton,
\* sendto(responder_socket, buffer, n, 0, &return_addr, ...)
HandleDatagram(dg) ==
    LET n == Recvfrom(dg.n)
    IN IF n < SizeofProbePacket
       THEN [handled |-> TRUE, dg |-> dg, echoed |-> FALSE]
       ELSE IF ~InetPton(dg.return_ip).ok
       THEN [handled |-> TRUE, dg |-> dg, echoed |-> FALSE]
       ELSE [handled |-> TRUE, dg |-> dg, echoed |-> TRUE,
             to |-> ReturnAddr(dg, dg.src), len |-> n]

\* A datagram arrives on the responder socket
RespArrive(dg) ==
    /\ engine_running
    /\ Len(resp_inbox) < MaxInbox
    /\ resp_inbox' = Append(resp_inbox, dg)
    /\ UNCHANGED <<resp_last, probeVars, ringVars, schedVars>>

\* while (engine_running) { n = recvfrom(...); ... sendto(...); }
ResponderStep ==
    /\ responder = "running"
    /\ engine_running
    /\ resp_inbox # <<>>
    /\ resp_last' = HandleDatagram(Head(resp_inbox))
    /\ resp_inbox' = Tail(resp_inbox)
    /\ UNCHANGED <<probeVars, ringVars, schedVars>>

InitResp ==
    /\ resp_inbox = <<>>
    /\ resp_last = NoHandled

(***************************************************************************)
(* Software health monitor: the functions of software_health.c as the      *)
(* sequence of their operations on health_enabled and g_health_mutex and   *)
(* of the calls they make, run by an interpreter one instruction a step.   *)
(***************************************************************************)
Enabled == <<"enabled", "">>    \* if (!health_enabled) return ...;
Lock    == <<"lock", "">>       \* pthread_mutex_lock(&g_health_mutex)
Unlock  == <<"unlock", "">>     \* pthread_mutex_unlock(&g_health_mutex)
Call(f) == <<"call", f>>        \* f(...)
Maybe(f) == <<"maybe", f>>      \* if (now - last_x >= interval) f(...)
Do(what) == <<what, "">>

HealthCode ==
    "periodic_health_check" :>
        << Enabled, Call("monitor_memory_usage"),
           Call("check_thread_responsiveness"), Maybe("log_health_status"),
           Maybe("export_health_to_json"), Maybe("cleanup_old_errors") >>
 @@ "monitor_memory_usage" :> << Enabled, Lock, Unlock >>
 @@ "check_thread_responsiveness" :> << Enabled, Lock, Unlock >>
 @@ "cleanup_old_errors" :> << Enabled, Lock, Unlock >>
 @@ "log_health_status" :> << Enabled, Call("get_health_summary") >>
 @@ "get_health_summary" :>
        << Enabled, Lock, Call("calculate_health_score"),
           Call("is_system_healthy"), Unlock >>
 @@ "calculate_health_score" :> << Enabled, Call("get_hourly_error_rate") >>
 @@ "is_system_healthy" :> << Enabled, Call("calculate_health_score") >>
 @@ "get_hourly_error_rate" :> << Enabled, Lock, Unlock >>
 @@ "populate_agent_health" :>
        << Enabled, Lock, Call("calculate_health_score"), Unlock >>
 @@ "export_health_to_json" :> << Enabled, Call("populate_agent_health") >>
 @@ "software_health_shutdown" :>
        << Enabled, Lock, Call("emergency_save_health_state"),
           Do("disable"), Unlock >>
 @@ "emergency_save_health_state" :> << Enabled >>
 @@ "crash_signal_handler" :>
        << Enabled, Lock, Unlock, Call("populate_crash_report"),
           Call("add_crash_to_history"), Call("export_crash_to_json"),
           Call("emergency_save_health_state"), Do("sig_dfl"), Do("raise") >>
 @@ "populate_crash_report" :> << Enabled, Lock, Unlock >>
 @@ "add_crash_to_history" :> << Lock, Do("add_crash"), Unlock >>
 @@ "export_crash_to_json" :>
        << Enabled, Lock, Do("build_json"), Unlock, Do("write_crashes") >>

\* The threads of the process and the health operations each one calls
HealthThreads == {"safety", "main"}
HealthOps ==
    "safety" :> {"periodic_health_check"}
 @@ "main" :> {"get_health_summary", "populate_agent_health",
               "export_health_to_json", "log_health_status",
               "software_health_shutdown"}

\* add_crash_to_history: shift the history when full, append the report
AddCrash(history, report) ==
    IF Len(history) >= MAX_CRASH_HISTORY
    THEN Append(SubSeq(history, 2, MAX_CRASH_HISTORY), report)
    ELSE Append(history, report)

Top(t) == call_stack[t][Len(call_stack[t])]
Instr(t) == HealthCode[Top(t)[1]][Top(t)[2]]
\* the thread stands at the end of its innermost function
AtReturn(t) == Top(t)[2] > Len(HealthCode[Top(t)[1]])
Pop(stack) == SubSeq(stack, 1, Len(stack) - 1)
\* the innermost frame moves on by one instruction
Advance(stack) == [stack EXCEPT ![Len(stack)] = <<@[1], @[2] + 1>>]
InHandler(t) ==
    \E k \in 1 .. Len(call_stack[t]) : call_stack[t][k][1] = "crash_signal_handler"
\* the thread is at a pthread_mutex_lock(&g_health_mutex)
AtLock(t) ==
    /\ call_stack[t] # <<>>
    /\ ~AtReturn(t)
    /\ Instr(t)[1] = "lock"

\* A thread calls one of its health operations
HealthCall(t, f) ==
    /\ process = "running"
    /\ call_stack[t] = <<>>
    /\ call_stack' = [call_stack EXCEPT ![t] = << <<f, 1>> >>]
    /\ UNCHANGED <<health_enabled, g_health_mutex, crash_disposition,
                   g_crash_history, crash_json, crash_file, signals,
                   process>>

\* A crash signal is delivered to thread t while the handlers installed by
\* setup_crash_handlers are in place: crash_signal_handler runs on top of
\* whatever t was doing. The signal is blocked while its handler runs.
CrashSignal(t) ==
    /\ process = "running"
    /\ crash_disposition = "handler"
    /\ signals < MaxSignals
    /\ ~InHandler(t)
    /\ signals' = signals + 1
    /\ call_stack' = [call_stack EXCEPT
                         ![t] = Append(@, <<"crash_signal_handler", 1>>)]
    /\ UNCHANGED <<health_enabled, g_health_mutex, crash_disposition,
                   g_crash_history, crash_json, crash_file, process>>

\* Thread t executes its next instruction. pthread_mutex_lock on the default
\* mutex returns once the mutex is free; a thread that owns it already never
\* gets it.
HealthStep(t, taken) ==
    /\ process = "running"
    /\ call_stack[t] # <<>>
    /\ LET stack == call_stack[t]
           op == IF AtReturn(t) THEN "return" ELSE Instr(t)[1]
           f  == IF AtReturn(t) THEN "" ELSE Instr(t)[2]
       IN /\ op = "lock" => g_health_mutex = "free"
          /\ op = "maybe" \/ taken
          /\ call_stack' = [call_stack EXCEPT ![t] =
                CASE op = "return" -> Pop(stack)
                  [] op = "enabled" -> IF health_enabled THEN Advance(stack)
                                                         ELSE Pop(stack)
                  [] op = "call" -> Append(Advance(stack), <<f, 1>>)
                  [] op = "maybe" -> IF taken THEN Append(Advance(stack), <<f, 1>>)
                                              ELSE Advance(stack)
                  [] OTHER -> Advance(stack)]
          /\ g_health_mutex' = CASE op = "lock" -> t
                                 [] op = "unlock" -> "free"
                                 [] OTHER -> g_health_mutex
          /\ health_enabled' = IF op = "disable" THEN FALSE ELSE health_enabled
          /\ crash_disposition' = IF op = "sig_dfl" THEN "default"
                                                    ELSE crash_disposition
          /\ g_crash_history' = IF op = "add_crash"
                                THEN AddCrash(g_crash_history, signals)
                                ELSE g_crash_history
          /\ crash_json' = IF op = "build_json"
                           THEN [crash_json EXCEPT ![t] = g_crash_history]
                           ELSE crash_json
          /\ crash_file' = IF op = "write_crashes" THEN crash_json[t]
                                                   ELSE crash_file
          /\ process' = IF op = "raise" THEN "killed" ELSE process
    /\ UNCHANGED signals

\* the state software_health_init leaves behind
InitHealth ==
    /\ health_enabled = TRUE
    /\ g_health_mutex = "free"
    /\ call_stack = [t \in HealthThreads |-> <<>>]
    /\ crash_disposition = "handler"
    /\ g_crash_history = <<>>
    /\ crash_json = [t \in HealthThreads |-> <<>>]
    /\ crash_file = <<>>
    /\ signals = 0
    /\ process = "running"
(***************************************************************************)
(* History ring driven by an arbitrary stream of results.                  *)
(***************************************************************************)
\* The store of mesh_monitor_thread, for the next result of the stream
RingRecord ==
    /\ Len(stored) < MaxRecords
    /\ RecordResult([timestamp |-> clock + 1])
    /\ clock' = clock + 1
    /\ recent' = NoRecent

\* get_recent_probes(results, max_results)
RingRead(max_results) ==
    GetRecentProbes(max_results)

(***************************************************************************)
(* JSON exporters: export_network_to_json and export_health_to_json.       *)
(***************************************************************************)
Exporters == {"network", "health"}
\* the filepath each exporter is called with
ExportPath == "network" :> "/tmp/meshmon_network.json"
           @@ "health" :> "/tmp/meshmon_health.json"
\* snprintf(temp_path, sizeof(temp_path), "%s.tmp", filepath)
TempPath(filepath) ==
    CASE filepath = "/tmp/meshmon_network.json" -> "/tmp/meshmon_network.json.tmp"
      [] filepath = "/tmp/meshmon_health.json" -> "/tmp/meshmon_health.json.tmp"
Paths == {ExportPath[e] : e \in Exporters}
            \cup {TempPath(ExportPath[e]) : e \in Exporters}

\* Content of a path: no file, or the chunks of document doc written so far
Absent == [doc |-> 0, written |-> 0]
IsComplete(content) == content.doc # 0 /\ content.written = ExportChunks

\* what pthread_mutex_lock does for a thread that owns the default mutex
\* already is undefined: it never returns, or it returns as if granted
RelockOutcomes == {"blocks", "returns"}

\* The checks before the temporary file is opened.
\* export_network_to_json: is_mesh_monitor_enabled(), probe_count > 0.
\* export_health_to_json: health_enabled, then populate_agent_health, which
\* locks g_health_mutex while it holds it.
ExportBegin(e, relock) ==
    /\ export_pc[e] = "idle"
    /\ exports < MaxExports
    /\ IF e = "network"
       THEN export_pc' = [export_pc EXCEPT ![e] =
               IF monitor_enabled
                  /\ RecentFrom(probe_history, probe_history_index, 0,
                                PROBE_HISTORY_SIZE) # <<>>
               THEN "fopen" ELSE "idle"]
       ELSE export_pc' = [export_pc EXCEPT ![e] =
               IF ~health_enabled THEN "idle"
               ELSE IF relock = "blocks" THEN "blocked" ELSE "fopen"]
    /\ UNCHANGED <<files, exports>>

\* fopen(temp_path, "w"): creates or truncates the temporary file, or fails
ExportOpen(e, ok) ==
    /\ export_pc[e] = "fopen"
    /\ IF ok
       THEN /\ exports' = exports + 1
            /\ files' = [files EXCEPT ![TempPath(ExportPath[e])] =
                            [doc |-> exports + 1, written |-> 0]]
            /\ export_pc' = [export_pc EXCEPT ![e] = "write"]
       ELSE /\ export_pc' = [export_pc EXCEPT ![e] = "idle"]
            /\ UNCHANGED <<files, exports>>

\* fprintf(fp, ...) ... fclose(fp): the return values are not looked at. A
\* write that fails (no space left in /tmp) leaves the file short and the
\* stream in error.
ExportWrite(e, ok) ==
    /\ export_pc[e] = "write"
    /\ LET tmp == TempPath(ExportPath[e])
       IN IF ok
          THEN /\ files' = [files EXCEPT ![tmp].written = @ + 1]
               /\ export_pc' = [export_pc EXCEPT ![e] =
                     IF files[tmp].written + 1 = ExportChunks THEN "rename"
                                                              ELSE "write"]
          ELSE /\ export_pc' = [export_pc EXCEPT ![e] = "rename"]
               /\ UNCHANGED files
    /\ UNCHANGED exports

\* rename(temp_path, filepath)
ExportRename(e, ok) ==
    /\ export_pc[e] = "rename"
    /\ LET path == ExportPath[e]
           tmp == TempPath(path)
       IN IF ok
          THEN /\ files' = [files EXCEPT ![path] = files[tmp], ![tmp] = Absent]
               /\ export_pc' = [export_pc EXCEPT ![e] = "idle"]
          ELSE /\ export_pc' = [export_pc EXCEPT ![e] = "unlink"]
               /\ UNCHANGED files
    /\ UNCHANGED exports

\* unlink(temp_path); return -1
ExportUnlink(e) ==
    /\ export_pc[e] = "unlink"
    /\ files' = [files EXCEPT ![TempPath(ExportPath[e])] = Absent]
    /\ export_pc' = [export_pc EXCEPT ![e] = "idle"]
    /\ UNCHANGED exports

\* The process stops at whatever step its exports stand, and is started again
ProcessRestart ==
    /\ export_pc' = [e \in Exporters |-> "idle"]
    /\ export_pc' # export_pc
    /\ UNCHANGED <<files, exports>>

InitExport ==
    /\ files = [p \in Paths |-> Absent]
    /\ export_pc = [e \in Exporters |-> "idle"]
    /\ exports = 0

(***************************************************************************)
(* SIP response queue: quality_monitor_handle_response and                 *)
(* quality_monitor_dequeue_response, each under g_response_queue_mutex.    *)
(***************************************************************************)
\* len of the messages handed to quality_monitor_handle_response
MessageLens == {0, 100, MAX_RESPONSE_SIZE}
\* buffer_size of the callers of quality_monitor_dequeue_response
BufferSizes == {64, MAX_RESPONSE_SIZE}

EmptyEntry == [id |-> 0, len |-> 0, valid |-> 0]
NoDequeue == [called |-> FALSE]

\* (index + 1) % MAX_RESPONSE_QUEUE
NextSlot(index) == (index + 1) % MAX_RESPONSE_QUEUE

\* A handler that keeps the read index where it is when the queue is full
KeepOldest(read) == read

\* Queue full - drop oldest message
DropOldest(read) == NextSlot(read)

\* quality_monitor_handle_response(buffer, len); the message is enqueued + 1
HandleResponse(len) ==
    /\ enqueued < MaxMessages
    /\ IF len <= 0 \/ len >= MAX_RESPONSE_SIZE
       THEN UNCHANGED <<g_response_queue, g_response_queue_read,
                        g_response_queue_write, enqueued>>
       ELSE LET next_write == NextSlot(g_response_queue_write)
            IN /\ g_response_queue_read' =
                     IF next_write = g_response_queue_read
                     THEN DropOldest(g_response_queue_read)
                     ELSE g_response_queue_read
               /\ g_response_queue' =
                     [g_response_queue EXCEPT ![g_response_queue_write] =
                         [id |-> enqueued + 1, len |-> len, valid |-> 1]]
               /\ g_response_queue_write' = next_write
               /\ enqueued' = enqueued + 1
    /\ dequeue_ret' = NoDequeue
    /\ UNCHANGED delivered

\* quality_monitor_dequeue_response(buffer, buffer_size, timeout_ms): waits
\* while the queue is empty, returns 0 when the wait times out, else copies
\* the entry at the read index, cut to buffer_size - 1 bytes
DequeueResponse(buffer_size) ==
    /\ IF g_response_queue_read = g_response_queue_write
       THEN /\ dequeue_ret' = [called |-> TRUE, ret |-> 0, id |-> 0]
            /\ UNCHANGED <<g_response_queue, g_response_queue_read, delivered>>
       ELSE LET entry == g_response_queue[g_response_queue_read]
                len == IF entry.len > buffer_size - 1 THEN buffer_size - 1
                                                      ELSE entry.len
            IN /\ dequeue_ret' = [called |-> TRUE, ret |-> len, id |-> entry.id]
               /\ g_response_queue' =
                     [g_response_queue EXCEPT ![g_response_queue_read].valid = 0]
               /\ g_response_queue_read' = NextSlot(g_response_queue_read)
               /\ delivered' = delivered + 1
    /\ UNCHANGED <<g_response_queue_write, enqueued>>

InitQueue ==
    /\ g_response_queue = [i \in 0 .. MAX_RESPONSE_QUEUE - 1 |-> EmptyEntry]
    /\ g_response_queue_read = 0
    /\ g_response_queue_write = 0
    /\ enqueued = 0
    /\ delivered = 0
    /\ dequeue_ret = NoDequeue

(***************************************************************************)
(* The agent discovery cache (agent_discovery.c): agent_cache[] with       *)
(* agent_count, and its file /tmp/aredn_agent_cache.txt.                   *)
(***************************************************************************)
MAX_DISCOVERED_AGENTS == 100

\* A piece of text between two commas of a cache line, kept as strtol sees
\* it: the number its leading digits spell (-1: it does not start with a
\* digit) and the characters after them.
Num(n) == [num |-> n, rest |-> ""]
Word(w) == [num |-> -1, rest |-> w]
Dotted(n, rest) == [num |-> n, rest |-> rest]
EmptyText == Word("")

\* sscanf(line, "%[^,],%[^,],%ld", ip, node, &timestamp): the number of
\* conversions done, and what they stored.  %[^,] needs one character at
\* least, %ld needs a leading digit and stops after the digits.
Sscanf(line) ==
    LET got1 == Len(line) >= 1 /\ line[1] # EmptyText
        got2 == got1 /\ Len(line) >= 2 /\ line[2] # EmptyText
        got3 == got2 /\ Len(line) >= 3 /\ line[3].num >= 0
    IN  [n |-> IF got3 THEN 3 ELSE IF got2 THEN 2 ELSE IF got1 THEN 1 ELSE 0,
         ip |-> IF got1 THEN line[1] ELSE EmptyText,
         node |-> IF got2 THEN line[2] ELSE EmptyText,
         timestamp |-> IF got3 THEN line[3].num ELSE 0]

NoCacheFile == [exists |-> FALSE, lines |-> <<>>]

\* the while loop of load_agent_cache with agent_count <=
\* MAX_DISCOVERED_AGENTS for its test: one line more is stored
RECURSIVE LoadOneMore(_, _, _)
LoadOneMore(lines, i, loaded) ==
    IF i > Len(lines) \/ Len(loaded) > MAX_DISCOVERED_AGENTS THEN loaded
    ELSE LET s == Sscanf(lines[i])
         IN  LoadOneMore(lines, i + 1,
                 IF s.n = 3
                 THEN Append(loaded, [ip |-> s.ip, node |-> s.node,
                                      last_seen |-> s.timestamp,
                                      is_active |-> TRUE])
                 ELSE loaded)

\* the while loop of load_agent_cache, from line i on, with the entries
\* loaded so far
RECURSIVE LoadLines(_, _, _)
LoadLines(lines, i, loaded) ==
    IF i > Len(lines) \/ Len(loaded) >= MAX_DISCOVERED_AGENTS THEN loaded
    ELSE LET s == Sscanf(lines[i])
         IN  LoadLines(lines, i + 1,
                 IF s.n = 3
                 THEN Append(loaded, [ip |-> s.ip, node |-> s.node,
                                      last_seen |-> s.timestamp,
                                      is_active |-> TRUE])
                 ELSE loaded)

\* load_agent_cache(): the return value and agent_cache[0 .. agent_count-1]
LoadAgentCache(file, entries) ==
    IF ~file.exists THEN [ret |-> 0, entries |-> entries]
    ELSE LET loaded == LoadLines(file.lines, 1, <<>>)
         IN  [ret |-> Len(loaded), entries |-> loaded]

\* fprintf(fp, "%s,%s,%ld\n", ip, node, (long)last_seen)
CacheLine(entry) == <<entry.ip, entry.node, Num(entry.last_seen)>>

\* save_agent_cache(): the return value and the file (opened == FALSE: fopen
\* for writing failed)
SaveAgentCache(file, entries, opened) ==
    IF ~opened THEN [ret |-> -1, file |-> file]
    ELSE [ret |-> 0,
          file |-> [exists |-> TRUE,
                    lines |-> [i \in 1 .. Len(entries) |-> CacheLine(entries[i])]]]

\* add_agent_to_cache(ip, node)
AddAgentToCache(entries, ip, node, now) ==
    IF Len(entries) >= MAX_DISCOVERED_AGENTS
    THEN [ret |-> -1, entries |-> entries]
    ELSE [ret |-> 0,
          entries |-> Append(entries, [ip |-> ip, node |-> node,
                                       last_seen |-> now, is_active |-> TRUE])]

\* int count = (agent_count < max_agents) ? agent_count : max_agents;
CopyCount(count, max_agents) ==
    IF count < max_agents THEN count ELSE max_agents

\* get_discovered_agents(agents, max_agents): the return value and agents[]
GetDiscoveredAgents(entries, initialized, max_agents) ==
    IF ~initialized \/ max_agents <= 0 THEN [ret |-> -1, out |-> <<>>]
    ELSE LET count == CopyCount(Len(entries), max_agents)
         IN  [ret |-> count,
              out |-> [i \in 1 .. count |->
                          IF i <= Len(entries) THEN entries[i]
                          ELSE [ip |-> EmptyText, node |-> EmptyText,
                                last_seen |-> 0, is_active |-> FALSE]]]

\* when a scan runs
ScanEpoch == 1700000500

\* An entry of the hosts array of sysinfo.json: its name as the labels
\* between the dots, its address as the four numbers sscanf("%u.%u.%u.%u")
\* reads.  printf("%u") of a number:
RECURSIVE Decimal(_)
Decimal(n) ==
    IF n < 10
    THEN <<"0", "1", "2", "3", "4", "5", "6", "7", "8", "9">>[n + 1]
    ELSE Decimal(n \div 10) \o Decimal(n % 10)
\* snprintf(base_ip, ..., "%u.%u.%u.%u", a, b, c, d), as the cache keeps it
IpText(q) ==
    Dotted(q[1], "." \o Decimal(q[2]) \o "." \o Decimal(q[3])
                     \o "." \o Decimal(q[4]))
LabelText(l) == IF l.num >= 0 THEN Decimal(l.num) \o l.rest ELSE l.rest
RECURSIVE JoinLabels(_, _)
JoinLabels(name, i) ==
    IF i > Len(name) THEN ""
    ELSE IF i = Len(name) THEN LabelText(name[i])
    ELSE LabelText(name[i]) \o "." \o JoinLabels(name, i + 1)
\* a name as the text a cache entry keeps
NameText(name) ==
    IF Len(name) = 1 THEN name[1] ELSE Word(JoinLabels(name, 1))

\* inet_pton(AF_INET, host, &addr) on a name given by its labels: 1 for four
\* numbers up to 255 between dots, 0 for any other text
InetPtonText(host) ==
    IF /\ Len(host) = 4
       /\ \A i \in 1 .. 4 : host[i].num \in 0 .. 255 /\ host[i].rest = ""
    THEN 1 ELSE 0
\* http_get_localhost(host, port, path, buffer, buffer_size); transport is
\* whether connect, send and recv succeed
HttpGetLocalhost(host, transport) ==
    IF InetPtonText(host) <= 0 THEN -1
    ELSE IF ~transport THEN -1
    ELSE 0
\* the host perform_agent_discovery_scan asks: "localnode.local.mesh"
LocalNode == <<Word("localnode"), Word("local"), Word("mesh")>>

\* parse_hosts_ips(json, ips, names, MAX_DISCOVERED_AGENTS)
ParseHostsIps(hosts) ==
    SubSeq(hosts, 1, IF Len(hosts) < MAX_DISCOVERED_AGENTS THEN Len(hosts)
                     ELSE MAX_DISCOVERED_AGENTS)

\* is_numeric_name(name)
IsNumericName(name) ==
    Len(name) = 1 /\ name[1].num >= 0 /\ name[1].rest = ""

\* extract_router_name(name): "lan.ROUTER.local.mesh" gives "ROUTER", any
\* other name is returned as it is
ExtractRouterName(name) ==
    LET ends == {p \in 3 .. Len(name) - 1 :
                    name[p] = Word("local") /\ name[p + 1] = Word("mesh")}
    IN  IF Len(name) >= 2 /\ name[1] = Word("lan") /\ ends # {}
        THEN SubSeq(name, 2, (CHOOSE p \in ends : \A e \in ends : p <= e) - 1)
        ELSE name

\* what find_router_by_phone_ip returns when no base address is listed
NoRouter == <<>>
\* find_router_by_phone_ip(phone_ip, ips, names, count): the name listed at
\* phone_ip - 1 .. phone_ip - 5, nearest first
FindRouterByPhoneIp(phone_ip, hosts) ==
    LET base(offset) == IpText([phone_ip EXCEPT ![4] = phone_ip[4] - offset])
        at(offset) == {i \in 1 .. Len(hosts) : IpText(hosts[i].ip) = base(offset)}
        found == {offset \in 1 .. 5 : phone_ip[4] >= offset /\ at(offset) # {}}
    IN  IF found = {} THEN NoRouter
        ELSE LET offset == CHOOSE o \in found : \A e \in found : o <= e
                 i == CHOOSE k \in at(offset) : \A e \in at(offset) : k <= e
             IN  ExtractRouterName(hosts[i].name)

\* the first loop of perform_agent_discovery_scan, from host i on: the
\* routers of the telephones that resolve (reachable), each once, with the
\* address listed under the router's name; when the name is not listed
\* candidate_ips[] keeps what the stack held (stale)
RECURSIVE CandidateRouters(_, _, _, _, _)
CandidateRouters(hosts, reachable, stale, i, cands) ==
    IF i > Len(hosts) THEN cands
    ELSE LET router == FindRouterByPhoneIp(hosts[i].ip, hosts)
             named == {k \in 1 .. Len(hosts) : hosts[k].name = router}
             ip == IF named = {} THEN stale
                   ELSE IpText(hosts[CHOOSE k \in named :
                                        \A e \in named : k <= e].ip)
         IN  IF /\ IsNumericName(hosts[i].name)
                /\ hosts[i].name \in reachable
                /\ router # NoRouter
                /\ Len(cands) < MAX_DISCOVERED_AGENTS
                /\ \A j \in 1 .. Len(cands) : cands[j].router # router
             THEN CandidateRouters(hosts, reachable, stale, i + 1,
                      Append(cands, [router |-> router, ip |-> ip,
                                     node |-> NameText(router)]))
             ELSE CandidateRouters(hosts, reachable, stale, i + 1, cands)
\* test_agent_probe sleeps 10 seconds
ProbeWait == 10

\* the index of the first entry with this ip, 0 if there is none
CachedAt(entries, ip) ==
    IF \E j \in 1 .. Len(entries) : entries[j].ip = ip
    THEN CHOOSE j \in 1 .. Len(entries) :
            /\ entries[j].ip = ip
            /\ \A k \in 1 .. j - 1 : entries[k].ip # ip
    ELSE 0

\* the loop of perform_agent_discovery_scan over the candidates, from
\* candidate i on: the entries, and for each add_agent_to_cache call what it
\* found, returned and left
RECURSIVE TestCandidates(_, _, _, _, _, _)
TestCandidates(entries, cands, responders, i, now, adds) ==
    IF i > Len(cands) THEN [entries |-> entries, adds |-> adds]
    ELSE LET j == CachedAt(entries, cands[i].ip)
         IN  IF j # 0
             THEN TestCandidates(
                      [entries EXCEPT ![j].last_seen = now,
                                      ![j].is_active = TRUE],
                      cands, responders, i + 1, now, adds)
             ELSE IF i \in responders
             THEN LET r == AddAgentToCache(entries, cands[i].ip,
                                           cands[i].node, now + ProbeWait)
                  IN  TestCandidates(r.entries, cands, responders, i + 1,
                          now + ProbeWait,
                          Append(adds, [count |-> Len(entries),
                                        ret |-> r.ret,
                                        kept |-> r.entries = entries,
                                        after |-> Len(r.entries)]))
             ELSE TestCandidates(entries, cands, responders, i + 1,
                                 now + ProbeWait, adds)

\* what a scan was given and found: whether the endpoint of sysinfo.json
\* answers, the hosts it lists and the addresses that answer the test
\* probe; whether sysinfo.json was asked for and fetched, the candidate
\* routers found, and the cache, the file and the time before the scan
NoScan == [endpoint |-> FALSE, hosts |-> <<>>, passing |-> {},
           sysinfo |-> "none", cands |-> <<>>,
           before |-> <<>>, file |-> NoCacheFile, at |-> 0]
NoCall == [op |-> "none", ret |-> 0, adds |-> <<>>, out |-> <<>>, max |-> 0,
           scan |-> NoScan]
Returned(op, ret) == [NoCall EXCEPT !.op = op, !.ret = ret]

\* agent_discovery_init()
AgentDiscoveryInit ==
    LET r == LoadAgentCache(cache_file, <<>>)
    IN  /\ agent_entries' = r.entries
        /\ discovery_initialized' = TRUE
        /\ disc_ret' = Returned("init", 0)
        /\ UNCHANGED <<cache_file, scans>>

\* load_agent_cache(), called on its own
LoadCall ==
    LET r == LoadAgentCache(cache_file, agent_entries)
    IN  /\ agent_entries' = r.entries
        /\ disc_ret' = Returned("load", r.ret)
        /\ UNCHANGED <<cache_file, discovery_initialized, scans>>

\* save_agent_cache(), called on its own
SaveCall(opened) ==
    LET r == SaveAgentCache(cache_file, agent_entries, opened)
    IN  /\ cache_file' = r.file
        /\ disc_ret' = Returned("save", r.ret)
        /\ UNCHANGED <<agent_entries, discovery_initialized, scans>>

\* agent_discovery_shutdown()
AgentDiscoveryShutdown(opened) ==
    /\ discovery_initialized' = FALSE
    /\ cache_file' = SaveAgentCache(cache_file, agent_entries, opened).file
    /\ disc_ret' = Returned("shutdown", 0)
    /\ UNCHANGED <<agent_entries, scans>>

\* perform_agent_discovery_scan(): transport is whether the endpoint of
\* sysinfo.json answers and hosts what it lists, reachable the telephones
\* whose names resolve, passing the addresses that answer the test probe
PerformAgentDiscoveryScan(transport, hosts, reachable, passing, stale, opened) ==
    LET at == ScanEpoch + 100 * scans
        given == [NoScan EXCEPT !.endpoint = transport, !.hosts = hosts,
                                !.passing = passing,
                                !.before = agent_entries, !.file = cache_file,
                                !.at = at]
        parsed == ParseHostsIps(hosts)
    IN  /\ scans < MaxScans
        /\ scans' = scans + 1
        /\ IF ~discovery_initialized
           THEN /\ disc_ret' = [Returned("scan", -1) EXCEPT !.scan = given]
                /\ UNCHANGED <<cache_file, agent_entries, discovery_initialized>>
           ELSE IF HttpGetLocalhost(LocalNode, transport) # 0
           THEN /\ disc_ret' = [Returned("scan", -1) EXCEPT
                                   !.scan = [given EXCEPT !.sysinfo = "fail"]]
                /\ UNCHANGED <<cache_file, agent_entries, discovery_initialized>>
           ELSE IF Len(parsed) = 0
           THEN /\ disc_ret' = [Returned("scan", 0) EXCEPT
                                   !.scan = [given EXCEPT !.sysinfo = "ok"]]
                /\ UNCHANGED <<cache_file, agent_entries, discovery_initialized>>
           ELSE LET cands == CandidateRouters(parsed, reachable, stale, 1, <<>>)
                    responders == {k \in 1 .. Len(cands) : cands[k].ip \in passing}
                    r == TestCandidates(agent_entries, cands, responders, 1,
                                        at, <<>>)
                IN  /\ agent_entries' = r.entries
                    /\ cache_file' = SaveAgentCache(cache_file, r.entries, opened).file
                    /\ disc_ret' = [Returned("scan", Len(r.entries)) EXCEPT
                                       !.adds = r.adds,
                                       !.scan = [given EXCEPT !.sysinfo = "ok",
                                                              !.cands = cands]]
                    /\ UNCHANGED discovery_initialized

\* a caller of get_discovered_agents
GetCall(max_agents) ==
    LET r == GetDiscoveredAgents(agent_entries, discovery_initialized, max_agents)
    IN  /\ disc_ret' = [Returned("get", r.ret) EXCEPT !.out = r.out,
                                                       !.max = max_agents]
        /\ UNCHANGED <<cache_file, agent_entries, discovery_initialized, scans>>

\* the cache files the program can find: none, an empty one, one in the
\* four-field format with a three-field line, one as save_agent_cache
\* writes it with a broken line, and one with more lines than the cache holds
FourFieldFile ==
    [exists |-> TRUE,
     lines |-> << <<Dotted(10, ".1.2.3"), Dotted(10, ".1.2.1"), Word("nodeA"),
                    Num(1700000000)>>,
                  <<Dotted(10, ".4.5.6"), Word("nodeB"), Num(1700000001)>> >>]
LegacyFile ==
    [exists |-> TRUE,
     lines |-> << <<Dotted(10, ".4.5.6"), Word("nodeB"), Num(1700000001)>>,
                  <<Dotted(10, ".8.8.8")>>,
                  <<Dotted(10, ".9.9.9"), Word("nodeD"), Num(1700000002)>> >>]
LongFile ==
    [exists |-> TRUE,
     lines |-> [i \in 1 .. MAX_DISCOVERED_AGENTS + ExtraLines |->
                   <<Dotted(i, ".0.0.10"), Word("node"), Num(1700000000 + i)>>]]
CacheFiles == {NoCacheFile, [exists |-> TRUE, lines |-> <<>>],
               FourFieldFile, LegacyFile, LongFile}
\* the sizes callers pass to get_discovered_agents
GetSizes == {0, 1, MAX_DISCOVERED_AGENTS, MAX_DISCOVERED_AGENTS + ExtraLines}
\* the hosts arrays a scan can be given: none; a router with a telephone
\* behind it and a second router without one; both routers with a telephone;
\* a telephone whose router is listed under its lan alias only
Host(name, ip) == [name |-> name, ip |-> ip]
LanAlias(router) == <<Word("lan"), Word(router), Word("local"), Word("mesh")>>
NodeB == Host(<<Word("nodeB")>>, <<10, 4, 5, 6>>)
NodeC == Host(<<Word("nodeC")>>, <<10, 7, 7, 7>>)
PhoneB == Host(<<Num(1001)>>, <<10, 20, 30, 2>>)
PhoneC == Host(<<Num(1002)>>, <<10, 40, 50, 3>>)
PhoneD == Host(<<Num(1003)>>, <<10, 60, 70, 2>>)
HostLists ==
    {<<>>,
     <<NodeB, Host(LanAlias("nodeB"), <<10, 20, 30, 1>>), PhoneB, NodeC>>,
     <<NodeC, Host(LanAlias("nodeC"), <<10, 40, 50, 1>>), PhoneC,
       NodeB, Host(LanAlias("nodeB"), <<10, 20, 30, 1>>), PhoneB>>,
     <<Host(LanAlias("nodeD"), <<10, 60, 70, 1>>), PhoneD, NodeB>>}
Telephones == {PhoneB.name, PhoneC.name, PhoneD.name}
\* the sets of addresses that answer a test probe
Passings == {{}, {IpText(NodeC.ip)}, {IpText(NodeB.ip), IpText(NodeC.ip)}}
\* what an entry of candidate_ips[] that was never written can hold
StaleIps == {EmptyText, IpText(NodeB.ip)}

\* the file as an earlier run or another program left it, found before
\* agent discovery touched anything
CacheFileFound(file) ==
    /\ disc_ret = NoCall
    /\ cache_file = NoCacheFile
    /\ cache_file' = file
    /\ UNCHANGED <<agent_entries, discovery_initialized, scans, disc_ret>>

InitCache ==
    /\ cache_file = NoCacheFile
    /\ agent_entries = <<>>
    /\ discovery_initialized = FALSE
    /\ scans = 0
    /\ disc_ret = NoCall

(***************************************************************************)
(* The health records (software_health.c): thread liveness, memory, crash, *)
(* restart and error counters, and the score computed from them.           *)
(***************************************************************************)
MAX_THREADS == 4
THREAD_TIMEOUT_SECONDS == 30
\* THREAD_MAIN, THREAD_FETCHER, THREAD_UPDATER, THREAD_SAFETY
ThreadIds == 0 .. MAX_THREADS - 1
\* the pthread_t of the thread with this identifier (never 0)
Tid(t) == t + 1
FreeSlot == [tid |-> 0, last_heartbeat |-> 0, is_responsive |-> FALSE]
NoErrors == [sip_errors_per_hour |-> 0, fetch_failures_per_hour |-> 0,
             probe_failures_per_hour |-> 0, total_errors_24h |-> 0]
NoQuery == [op |-> "none", score |-> 0, healthy |-> FALSE]

\* the health functions lock g_health_mutex: they return only if it is free
MutexFree == g_health_mutex = "free"

\* register_thread_health: the first slot with tid == 0, MAX_THREADS if none
FirstFreeSlot(table) ==
    IF \E i \in ThreadIds : table[i].tid = 0
    THEN CHOOSE i \in ThreadIds :
            table[i].tid = 0 /\ \A j \in 0 .. i - 1 : table[j].tid # 0
    ELSE MAX_THREADS

\* register_thread_health(tid, name), called by the thread with identifier t
RegisterThreadHealth(t) ==
    /\ health_enabled
    /\ MutexFree
    /\ beat_at[t] = -1
    /\ LET i == FirstFreeSlot(g_thread_health)
       IN  g_thread_health' =
              IF i < MAX_THREADS
              THEN [g_thread_health EXCEPT
                       ![i] = [tid |-> Tid(t), last_heartbeat |-> htime,
                               is_responsive |-> TRUE]]
              ELSE g_thread_health
    /\ beat_at' = [beat_at EXCEPT ![t] = htime]
    /\ health_ret' = NoQuery
    /\ UNCHANGED <<htime, leak_suspected, crash_count_24h, restart_count,
                   g_error_tracker, errors_recorded, health_enabled,
                   g_health_mutex>>

\* update_thread_heartbeat(thread_id), between lock and unlock
Heartbeat(table, thread_id, now) ==
    IF table[thread_id].tid # 0
    THEN [table EXCEPT ![thread_id].last_heartbeat = now,
                       ![thread_id].is_responsive = TRUE]
    ELSE table

\* update_thread_heartbeat(thread_id), called by a registered thread with
\* its own identifier
UpdateThreadHeartbeat(thread_id) ==
    /\ health_enabled
    /\ MutexFree
    /\ beat_at[thread_id] # -1
    /\ g_thread_health' = Heartbeat(g_thread_health, thread_id, htime)
    /\ beat_at' = [beat_at EXCEPT ![thread_id] = htime]
    /\ health_ret' = NoQuery
    /\ UNCHANGED <<htime, leak_suspected, crash_count_24h, restart_count,
                   g_error_tracker, errors_recorded, health_enabled,
                   g_health_mutex>>

\* check_thread_responsiveness(): one slot of the sweep
SweepSlot(slot, now) ==
    IF slot.tid = 0 THEN slot
    ELSE IF now - slot.last_heartbeat > THREAD_TIMEOUT_SECONDS
         THEN [slot EXCEPT !.is_responsive = FALSE]
         ELSE [slot EXCEPT !.is_responsive = TRUE]

\* check_thread_responsiveness()
CheckThreadResponsiveness ==
    /\ MutexFree
    /\ health_enabled
    /\ g_thread_health' =
          [i \in ThreadIds |-> SweepSlot(g_thread_health[i], htime)]
    /\ health_ret' = NoQuery
    /\ UNCHANGED <<htime, beat_at, leak_suspected, crash_count_24h,
                   restart_count, g_error_tracker, errors_recorded,
                   health_enabled, g_health_mutex>>

\* dt seconds pass
TimePasses(dt) ==
    /\ htime + dt <= MaxTicks * TickSeconds
    /\ htime' = htime + dt
    /\ health_ret' = NoQuery
    /\ UNCHANGED <<g_thread_health, beat_at, leak_suspected, crash_count_24h,
                   restart_count, g_error_tracker, errors_recorded,
                   health_enabled, g_health_mutex>>

\* monitor_memory_usage(), leak being what detect_memory_leak answers
MonitorMemoryUsage(leak) ==
    /\ MutexFree
    /\ health_enabled
    /\ leak_suspected' = leak
    /\ health_ret' = NoQuery
    /\ UNCHANGED <<g_thread_health, htime, beat_at, crash_count_24h,
                   restart_count, g_error_tracker, errors_recorded,
                   health_enabled, g_health_mutex>>

\* crash_signal_handler, its first locked block: crash_count_24h++
CrashCounted ==
    /\ MutexFree
    /\ health_enabled
    /\ crash_count_24h < MaxCrashes
    /\ crash_count_24h' = crash_count_24h + 1
    /\ health_ret' = NoQuery
    /\ UNCHANGED <<g_thread_health, htime, beat_at, leak_suspected,
                   restart_count, g_error_tracker, errors_recorded,
                   health_enabled, g_health_mutex>>

\* record_process_restart(reason), increment_restart_counter(component)
RecordProcessRestart ==
    /\ MutexFree
    /\ health_enabled
    /\ restart_count < MaxRestarts
    /\ restart_count' = restart_count + 1
    /\ health_ret' = NoQuery
    /\ UNCHANGED <<g_thread_health, htime, beat_at, leak_suspected,
                   crash_count_24h, g_error_tracker, errors_recorded,
                   health_enabled, g_health_mutex>>

\* the components errors are recorded for, and the hourly counter the
\* strstr tests of record_error_event pick for each ("": none)
ErrorComponents == {"sip", "fetch", "probe"}
HourlyCounter(component) ==
    CASE component \in {"sip", "SIP"} -> "sip_errors_per_hour"
      [] component \in {"fetch", "phonebook"} -> "fetch_failures_per_hour"
      [] OTHER -> ""

\* record_error_event(component, error); record_sip_error and
\* record_fetch_error call it with "sip" and "fetch"
RecordErrorEvent(component) ==
    /\ MutexFree
    /\ health_enabled
    /\ g_error_tracker.total_errors_24h < MaxErrors
    /\ LET c == HourlyCounter(component)
           counted == IF c = "" THEN g_error_tracker
                      ELSE [g_error_tracker EXCEPT ![c] = @ + 1]
       IN  g_error_tracker' = [counted EXCEPT !.total_errors_24h = @ + 1]
    /\ errors_recorded' = errors_recorded + 1
    /\ health_ret' = NoQuery
    /\ UNCHANGED <<g_thread_health, htime, beat_at, leak_suspected,
                   crash_count_24h, restart_count, health_enabled,
                   g_health_mutex>>

\* cleanup_old_errors()
CleanupOldErrors ==
    /\ MutexFree
    /\ health_enabled
    /\ g_error_tracker' = [g_error_tracker EXCEPT
                              !.sip_errors_per_hour = 0,
                              !.fetch_failures_per_hour = 0,
                              !.probe_failures_per_hour = 0]
    /\ errors_recorded' = 0
    /\ health_ret' = NoQuery
    /\ UNCHANGED <<g_thread_health, htime, beat_at, leak_suspected,
                   crash_count_24h, restart_count, health_enabled,
                   g_health_mutex>>

\* get_hourly_error_rate()
GetHourlyErrorRate(tracker) ==
    tracker.sip_errors_per_hour + tracker.fetch_failures_per_hour
        + tracker.probe_failures_per_hour

\* fmax_simple(a, b)
FmaxSimple(a, b) == IF a > b THEN a ELSE b

\* the registered threads marked not responsive
Unresponsive(table) ==
    {i \in ThreadIds : table[i].tid # 0 /\ ~table[i].is_responsive}

\* calculate_health_score without its clamp to 0 .. 100
ScoreUnclamped(enabled, table, leak, crashes, restarts, tracker) ==
    IF ~enabled THEN 100
    ELSE 100 - 20 * Cardinality(Unresponsive(table))
             - (IF leak THEN 15 ELSE 0) - crashes * 10
             - (IF restarts > 5 THEN 10 ELSE 0) - GetHourlyErrorRate(tracker)

\* calculate_health_score(): every term is a small whole number, which float
\* holds exactly
CalculateHealthScore(enabled, table, leak, crashes, restarts, tracker) ==
    IF ~enabled THEN 100
    ELSE FmaxSimple(0,
             100 - 20 * Cardinality(Unresponsive(table))
                 - (IF leak THEN 15 ELSE 0) - crashes * 10
                 - (IF restarts > 5 THEN 10 ELSE 0)
                 - GetHourlyErrorRate(tracker))

\* is_system_healthy()
IsSystemHealthy(enabled, table, leak, crashes, restarts, tracker) ==
    IF ~enabled THEN TRUE
    ELSE CalculateHealthScore(enabled, table, leak, crashes, restarts,
                              tracker) >= 80

\* a caller of calculate_health_score() (get_hourly_error_rate locks)
CalculateHealthScoreCall ==
    /\ ~health_enabled \/ MutexFree
    /\ health_ret' =
          [op |-> "score",
           score |-> CalculateHealthScore(health_enabled, g_thread_health,
                         leak_suspected, crash_count_24h, restart_count,
                         g_error_tracker),
           healthy |-> FALSE]
    /\ UNCHANGED <<g_thread_health, htime, beat_at, leak_suspected,
                   crash_count_24h, restart_count, g_error_tracker,
                   errors_recorded, health_enabled, g_health_mutex>>

\* a caller of is_system_healthy()
IsSystemHealthyCall ==
    /\ ~health_enabled \/ MutexFree
    /\ health_ret' =
          [op |-> "healthy", score |-> 0,
           healthy |-> IsSystemHealthy(health_enabled, g_thread_health,
                           leak_suspected, crash_count_24h, restart_count,
                           g_error_tracker)]
    /\ UNCHANGED <<g_thread_health, htime, beat_at, leak_suspected,
                   crash_count_24h, restart_count, g_error_tracker,
                   errors_recorded, health_enabled, g_health_mutex>>

\* a caller of get_health_summary(&summary): with monitoring enabled the
\* call locks g_health_mutex and then waits for it in get_hourly_error_rate,
\* so no summary is filled in and the mutex stays taken
GetHealthSummaryCall ==
    /\ MutexFree
    /\ health_enabled
    /\ g_health_mutex' = "main"
    /\ health_ret' = NoQuery
    /\ UNCHANGED <<g_thread_health, htime, beat_at, leak_suspected,
                   crash_count_24h, restart_count, g_error_tracker,
                   errors_recorded, health_enabled>>

\* software_health_shutdown()
SoftwareHealthShutdown ==
    /\ MutexFree
    /\ health_enabled
    /\ health_enabled' = FALSE
    /\ health_ret' = NoQuery
    /\ UNCHANGED <<g_thread_health, htime, beat_at, leak_suspected,
                   crash_count_24h, restart_count, g_error_tracker,
                   errors_recorded, g_health_mutex>>

InitRecords ==
    /\ g_thread_health = [i \in ThreadIds |-> FreeSlot]
    /\ htime = 0
    /\ beat_at = [t \in ThreadIds |-> -1]
    /\ leak_suspected = FALSE
    /\ crash_count_24h = 0
    /\ restart_count = 0
    /\ g_error_tracker = NoErrors
    /\ errors_recorded = 0
    /\ health_ret = NoQuery

(***************************************************************************)
(* The phone quality cycle (phone_quality_monitor.c): the user table is    *)
(* read under the registrar's lock, the phones found are tested, the       *)
(* records are written to /tmp/phone_quality.json.                         *)
(***************************************************************************)
\* the user ids the registrar knows and the address <user_id>.local.mesh
\* resolves to when the phone is on the mesh
PhoneIp == "1001" :> "10.1.0.11" @@ "1002" :> "10.1.0.12"
UserIds == DOMAIN PhoneIp

\* pthread_mutex_lock(&registered_users_mutex)
QmLock ==
    /\ qm_pc = "lock"
    /\ registered_users_mutex = "free"
    /\ registered_users_mutex' = "quality"
    /\ qm_pc' = "scan"
    /\ qm_i' = 1
    /\ users_to_test' = <<>>
    /\ UNCHANGED <<registered_users, registrar_pc, g_monitor_running,
                   g_quality_records, quality_file, qm_cycles>>

\* the for loop over registered_users: a free slot is passed over, for a
\* user gethostbyname(<user_id>.local.mesh) is called; after the last slot
\* the lock is released
QmScan ==
    /\ qm_pc = "scan"
    /\ IF qm_i > Len(registered_users)
       THEN /\ registered_users_mutex' = "free"
            /\ qm_pc' = "test"
            /\ qm_i' = 1
       ELSE IF registered_users[qm_i] = ""
       THEN /\ qm_i' = qm_i + 1
            /\ UNCHANGED <<registered_users_mutex, qm_pc>>
       ELSE /\ qm_pc' = "dns"
            /\ UNCHANGED <<registered_users_mutex, qm_i>>
    /\ UNCHANGED <<registered_users, registrar_pc, g_monitor_running,
                   users_to_test, g_quality_records, quality_file, qm_cycles>>

\* gethostbyname returns: the phone is copied to users_to_test if its name
\* resolved
QmResolved(resolved) ==
    /\ qm_pc = "dns"
    /\ users_to_test' =
          IF resolved
          THEN Append(users_to_test,
                      [phone_number |-> registered_users[qm_i],
                       phone_ip |-> PhoneIp[registered_users[qm_i]]])
          ELSE users_to_test
    /\ qm_i' = qm_i + 1
    /\ qm_pc' = "scan"
    /\ UNCHANGED <<registered_users, registered_users_mutex, registrar_pc,
                   g_monitor_running, g_quality_records, quality_file,
                   qm_cycles>>

\* the test loop: test_phone_quality_with_socket is called for the next
\* phone, or the loop ends
QmTest ==
    /\ qm_pc = "test"
    /\ qm_pc' = IF qm_i <= Len(users_to_test) /\ g_monitor_running
                THEN "probe" ELSE "write"
    /\ UNCHANGED <<registered_users, registered_users_mutex, registrar_pc,
                   g_monitor_running, qm_i, users_to_test, g_quality_records,
                   quality_file, qm_cycles>>

\* the probe returns: store_quality_result, then the delay before the next
\* phone if there is one
QmProbed ==
    /\ qm_pc = "probe"
    /\ g_quality_records' =
          g_quality_records \cup {users_to_test[qm_i].phone_number}
    /\ IF qm_i < Len(users_to_test) /\ g_monitor_running
       THEN qm_pc' = "sleep" /\ UNCHANGED qm_i
       ELSE qm_pc' = "test" /\ qm_i' = qm_i + 1
    /\ UNCHANGED <<registered_users, registered_users_mutex, registrar_pc,
                   g_monitor_running, users_to_test, quality_file, qm_cycles>>

\* sleep(cycle_delay_sec) returns
QmSlept ==
    /\ qm_pc = "sleep"
    /\ qm_pc' = "test"
    /\ qm_i' = qm_i + 1
    /\ UNCHANGED <<registered_users, registered_users_mutex, registrar_pc,
                   g_monitor_running, users_to_test, g_quality_records,
                   quality_file, qm_cycles>>

\* write_quality_json(): fopen("/tmp/phone_quality.json", "w") creates the
\* file or cuts it to nothing
QmOpenJson(opened) ==
    /\ qm_pc = "write"
    /\ IF opened
       THEN /\ quality_file' = [doc |-> qm_cycles, written |-> 0]
            /\ qm_pc' = "writing"
       ELSE /\ qm_pc' = "wait"
            /\ UNCHANGED quality_file
    /\ UNCHANGED <<registered_users, registered_users_mutex, registrar_pc,
                   g_monitor_running, qm_i, users_to_test, g_quality_records,
                   qm_cycles>>

\* write_quality_json(): the fprintf calls, then fclose
QmWriteJson ==
    /\ qm_pc = "writing"
    /\ IF quality_file.written < ExportChunks
       THEN /\ quality_file' = [quality_file EXCEPT !.written = @ + 1]
            /\ UNCHANGED qm_pc
       ELSE /\ qm_pc' = "wait"
            /\ UNCHANGED quality_file
    /\ UNCHANGED <<registered_users, registered_users_mutex, registrar_pc,
                   g_monitor_running, qm_i, users_to_test, g_quality_records,
                   qm_cycles>>

\* the wait for the next test interval ends, or the thread exits
QmWait ==
    /\ qm_pc = "wait"
    /\ IF g_monitor_running
       THEN /\ qm_cycles < MaxQmCycles
            /\ qm_cycles' = qm_cycles + 1
            /\ qm_pc' = "lock"
       ELSE /\ qm_pc' = "exited"
            /\ UNCHANGED qm_cycles
    /\ UNCHANGED <<registered_users, registered_users_mutex, registrar_pc,
                   g_monitor_running, qm_i, users_to_test, g_quality_records,
                   quality_file>>

\* quality_monitor_stop(): g_monitor_running = 0
QmStop ==
    /\ g_monitor_running
    /\ g_monitor_running' = FALSE
    /\ UNCHANGED <<registered_users, registered_users_mutex, registrar_pc,
                   qm_pc, qm_i, users_to_test, g_quality_records,
                   quality_file, qm_cycles>>

\* a registrar thread asks for registered_users_mutex, gets it, and
\* releases it after changing one slot of the table
RegistrarWants ==
    /\ registrar_pc = "idle"
    /\ registrar_pc' = "waiting"
    /\ UNCHANGED <<registered_users, registered_users_mutex,
                   g_monitor_running, qm_pc, qm_i, users_to_test,
                   g_quality_records, quality_file, qm_cycles>>
RegistrarLocks ==
    /\ registrar_pc = "waiting"
    /\ registered_users_mutex = "free"
    /\ registered_users_mutex' = "registrar"
    /\ registrar_pc' = "holding"
    /\ UNCHANGED <<registered_users, g_monitor_running, qm_pc, qm_i,
                   users_to_test, g_quality_records, quality_file, qm_cycles>>
RegistrarUpdates(slot, user_id) ==
    /\ registrar_pc = "holding"
    /\ registered_users' = [registered_users EXCEPT ![slot] = user_id]
    /\ registered_users_mutex' = "free"
    /\ registrar_pc' = "idle"
    /\ UNCHANGED <<g_monitor_running, qm_pc, qm_i, users_to_test,
                   g_quality_records, quality_file, qm_cycles>>

InitQuality ==
    /\ registered_users = <<"1001", "", "1002">>
    /\ registered_users_mutex = "free"
    /\ registrar_pc = "idle"
    /\ g_monitor_running = TRUE
    /\ qm_pc = "lock"
    /\ qm_i = 1
    /\ users_to_test = <<>>
    /\ g_quality_records = {}
    /\ quality_file = Absent
    /\ qm_cycles = 1

(***************************************************************************)
(* The probe cycle and the discovery cycle of mesh_monitor_thread, second  *)
(* by second: which targets a cycle probes and when a discovery scan is    *)
(* started.                                                                *)
(***************************************************************************)
\* get_default_config
network_status_interval_s == 40
probe_window_s == 5
DefaultNeighborTargets == 2
\* if (0 && now - last_discovery_time >= 3600)
AGENT_DISCOVERY_INTERVAL_S == 3600
\* if (now - last_discovery_time > 60)
DiscoveryHoldoff == 60
\* sleep(5) at the end of an iteration
LoopSleep == 5
\* the periodic scan is compiled out: if (0 && ...)
PeriodicDiscoveryEnabled == FALSE

\* the agents a discovery scan can find, in the order they are cached
MeshAgents == <<"10.0.0.1", "10.0.0.2", "10.0.0.3">>
NoProbeCycle == [at |-> -1, found |-> <<>>, probed |-> <<>>, scanned |-> FALSE]

\* the targets one probe cycle calls send_probes for: every agent
\* get_discovered_agents returned, in that order
CycleTargets(cached, targets) == cached
\* a cycle that stops after the configured number of targets
CycleTargetsTruncated(cached, targets) ==
    SubSeq(cached, 1, IF Len(cached) < targets THEN Len(cached) ELSE targets)

\* load_monitor_config and agent_discovery_init have run: the configured
\* neighbor_targets and the cache loaded; mesh_monitor_thread starts:
\* last_probe_time = now - interval - 1; last_discovery_time = now
MonitorThreadStarts(targets, cached) ==
    /\ mm_pc = "config"
    /\ mm_pc' = "loop"
    /\ neighbor_targets' = targets
    /\ discovered' = cached
    /\ last_probe_time' = mm_now - network_status_interval_s - 1
    /\ last_discovery_time' = mm_now
    /\ UNCHANGED <<mm_now, probe_cycle, last_scan_at>>

\* one iteration of while (monitor_running): the periodic discovery test,
\* the probe cycle if it is due (the targets probed one after the other,
\* each with its probe window, or the scan on an empty cache), sleep(5).
\* `found` is what a scan started in this iteration adds to the cache.
MonitorIteration(found) ==
    /\ mm_pc = "loop"
    /\ mm_now < MaxSeconds
    /\ LET periodic == PeriodicDiscoveryEnabled
                         /\ mm_now - last_discovery_time
                               >= AGENT_DISCOVERY_INTERVAL_S
           seen     == IF periodic THEN found ELSE discovered
           since    == IF periodic THEN mm_now ELSE last_discovery_time
           due      == mm_now - last_probe_time >= network_status_interval_s
           targets  == IF due THEN CycleTargets(seen, neighbor_targets)
                              ELSE <<>>
           onDemand == due /\ Len(seen) = 0
                           /\ mm_now - since > DiscoveryHoldoff
       IN  /\ discovered' = IF onDemand THEN found ELSE seen
           /\ last_discovery_time' = IF onDemand THEN mm_now ELSE since
           /\ last_scan_at' = IF periodic \/ onDemand THEN mm_now
                                                      ELSE last_scan_at
           /\ probe_cycle' =
                 IF due THEN [at |-> mm_now, found |-> seen,
                              probed |-> targets, scanned |-> onDemand]
                        ELSE probe_cycle
           /\ last_probe_time' = IF due THEN mm_now ELSE last_probe_time
           /\ mm_now' = mm_now + Len(targets) * probe_window_s + LoopSleep
    /\ UNCHANGED <<mm_pc, neighbor_targets>>

\* mesh_monitor_shutdown: monitor_running = false, the loop ends
MonitorStops ==
    /\ mm_pc = "loop"
    /\ mm_pc' = "stopped"
    /\ UNCHANGED <<mm_now, last_probe_time, last_discovery_time,
                   neighbor_targets, discovered, probe_cycle, last_scan_at>>

InitCycle ==
    /\ mm_pc = "config"
    /\ mm_now = 0
    /\ last_probe_time = 0
    /\ last_discovery_time = 0
    /\ neighbor_targets = DefaultNeighborTargets
    /\ discovered = <<>>
    /\ probe_cycle = NoProbeCycle
    /\ last_scan_at = -1

(***************************************************************************)
(* The memory record (software_health.c): monitor_memory_usage and         *)
(* detect_memory_leak. Sizes are in KB (get_process_rss returns            *)
(* rss_kb * 1024); the growth rate is kept as the two measured numbers it  *)
(* is computed from.                                                       *)
(***************************************************************************)
\* size_t of the 32-bit targets, in KB: current_rss - last_rss wraps
SizeWrapKb == 2^22

\* (growth_bytes / 1024.0 / 1024.0) * (3600.0 / elapsed) > 0.1, that is
\* kb * 3600 * 10 > 1024 * s
GrowthOverTenth(growth) == growth.kb > (32 * growth.s) \div 1125
\* current_rss > initial_rss * 1.5
OverHalfAgain(current_rss, initial_rss) == 2 * current_rss > 3 * initial_rss

\* the leak test without the size condition
DetectGrowthOnly(enabled, mem, current_rss) ==
    enabled /\ GrowthOverTenth(mem.growth)
\* detect_memory_leak(current_rss)
DetectMemoryLeak(enabled, mem, current_rss) ==
    /\ enabled
    /\ OverHalfAgain(current_rss, mem.initial_rss)
    /\ GrowthOverTenth(mem.growth)

\* monitor_memory_usage(): the fields written before and after the leak
\* test. last_check is a time(NULL) value, so last_check > 0 holds.
MemoryAfterCheck(mem, current_rss, now) ==
    LET elapsed == now - mem.last_check
        delta   == (current_rss - mem.last_rss) % SizeWrapKb
    IN  [mem EXCEPT
           !.current_rss = current_rss,
           !.peak_rss = IF current_rss > @ THEN current_rss ELSE @,
           !.growth = IF elapsed > 0 THEN [kb |-> delta, s |-> elapsed] ELSE @,
           !.last_check = now,
           !.last_rss = current_rss]

\* monitor_memory_usage() when get_process_rss() returns current_rss
MonitorMemoryUsageCall(current_rss) ==
    /\ g_memory_health' = MemoryAfterCheck(g_memory_health, current_rss, htime)
    /\ MonitorMemoryUsage(DetectMemoryLeak(health_enabled, g_memory_health',
                                           current_rss))

\* the clock moves between two checks
MemoryTimePasses ==
    /\ TimePasses(TickSeconds)
    /\ UNCHANGED g_memory_health

\* software_health_init: the record starts from the current size
InitMemory ==
    g_memory_health = [initial_rss |-> InitialRssKb,
                       current_rss |-> InitialRssKb,
                       peak_rss |-> InitialRssKb,
                       growth |-> [kb |-> 0, s |-> 1],
                       last_check |-> 0,
                       last_rss |-> InitialRssKb]

(***************************************************************************)
(* classify_link_type (routing_adapter.c). An interface name is the        *)
(* sequence of its characters; the argument is a pointer that may be null. *)
(***************************************************************************)
NullName == [null |-> TRUE, name |-> <<>>]
NameOf(chars) == [null |-> FALSE, name |-> chars]

\* strncmp(s, lit, n) == 0 for a literal of n characters or more: the first
\* n characters of s are those of lit (s ends before them if it is shorter)
StrncmpEq(s, lit, n) == Len(s) >= n /\ SubSeq(s, 1, n) = SubSeq(lit, 1, n)

\* classify_link_type with the test for br- left out
ClassifyWithoutBridge(interface) ==
    IF interface.null THEN "unknown"
    ELSE IF StrncmpEq(interface.name, <<"w", "l", "a", "n">>, 4) THEN "RF"
    ELSE IF StrncmpEq(interface.name, <<"t", "u", "n">>, 3) THEN "tunnel"
    ELSE IF StrncmpEq(interface.name, <<"e", "t", "h">>, 3) THEN "ethernet"
    ELSE "unknown"
\* classify_link_type(interface)
ClassifyLinkType(interface) ==
    IF interface.null THEN "unknown"
    ELSE IF StrncmpEq(interface.name, <<"w", "l", "a", "n">>, 4) THEN "RF"
    ELSE IF StrncmpEq(interface.name, <<"t", "u", "n">>, 3) THEN "tunnel"
    ELSE IF StrncmpEq(interface.name, <<"e", "t", "h">>, 3) THEN "ethernet"
    ELSE IF StrncmpEq(interface.name, <<"b", "r", "-">>, 3) THEN "bridge"
    ELSE "unknown"

NoLinkCall == [called |-> FALSE, interface |-> NullName, ret |-> ""]

\* a caller classifies an interface
ClassifyCall(interface) ==
    /\ link_call' = [called |-> TRUE, interface |-> interface,
                     ret |-> ClassifyLinkType(interface)]
    /\ link_prev' = link_call

InitLink ==
    /\ link_call = NoLinkCall
    /\ link_prev = NoLinkCall

(***************************************************************************)
(* Bursts and windows to one target: each probe and each echo is followed  *)
(* with the window it was sent in.                                         *)
(***************************************************************************)
WindowTarget == "10.0.0.1"

\* send_probes(WindowTarget, count, ...): a burst of the window under way
WindowSend(count, okSet) ==
    /\ ProbeSend(WindowTarget, count, okSet)
    /\ probes_sent' = probes_sent
                        \cup {<<window_no, i>> : i \in okSet \cap (0 .. count - 1)}
    /\ UNCHANGED <<window_no, rx_window>>

\* the echo of a probe that was sent, in this window or an earlier one,
\* reaches the sender socket
WindowEcho(w, seq) ==
    /\ <<w, seq>> \in probes_sent
    /\ ProbeEcho(seq, "full")
    /\ rx_window' = Append(rx_window, w)
    /\ UNCHANGED <<window_no, probes_sent>>

\* calculate_probe_metrics(WindowTarget, &result) ends the window
WindowCalc(rtts) ==
    /\ window_no < MaxWindows
    /\ ProbeCalc(WindowTarget, rtts)
    /\ rx_window' = SubSeq(rx_window, Len(probe_rx) - Len(probe_rx') + 1,
                           Len(rx_window))
    /\ window_no' = window_no + 1
    /\ UNCHANGED probes_sent

InitWindow ==
    /\ window_no = 1
    /\ probes_sent = {}
    /\ rx_window = <<>>

(***************************************************************************)
(* One probe cycle of mesh_monitor_thread, statement by statement: the     *)
(* calls it makes are logged in order with their target and return value.  *)
(* What send_probes and calculate_probe_metrics return is left open.       *)
(***************************************************************************)
Called(step, i, ret) == [step |-> step, target |-> i, ret |-> ret]

\* if (now - last_probe_time >= interval) {
\*     agent_count = get_discovered_agents(agents, MAX_DISCOVERED_AGENTS);
OrderBegin(cached) ==
    /\ ord_pc = "idle"
    /\ ord_cycles < MaxCycles
    /\ ord_cycles' = ord_cycles + 1
    /\ ord_agents' = cached
    /\ ord_i' = 1
    /\ ord_log' = <<>>
    /\ ord_pc' = IF Len(cached) > 0 THEN "send" ELSE "discover"
    /\ UNCHANGED <<ord_sent, ord_calc>>

\* for (i < agent_count) { probes_sent = send_probes(agents[i].ip, 10, 100);
\* if (probes_sent > 0) { ... } }, or the end of the loop
OrderSend(ret) ==
    /\ ord_pc = "send"
    /\ IF ord_i > Len(ord_agents)
       THEN /\ ord_pc' = "export"
            /\ UNCHANGED <<ord_i, ord_sent, ord_log>>
       ELSE /\ ord_sent' = ret
            /\ ord_log' = Append(ord_log, Called("send", ord_i, ret))
            /\ IF ret > 0
               THEN ord_pc' = "wait" /\ UNCHANGED ord_i
               ELSE ord_pc' = "send" /\ ord_i' = ord_i + 1
    /\ UNCHANGED <<ord_agents, ord_calc, ord_cycles>>

\* sleep(g_monitor_config.probe_window_s);
OrderWait ==
    /\ ord_pc = "wait"
    /\ ord_log' = Append(ord_log, Called("wait", ord_i, probe_window_s))
    /\ ord_pc' = "measure"
    /\ UNCHANGED <<ord_i, ord_agents, ord_sent, ord_calc, ord_cycles>>

\* a measurement whose result is recorded whatever it returned
MeasureAlwaysRecorded(ret) ==
    /\ ord_pc = "measure"
    /\ ord_calc' = ret
    /\ ord_log' = Append(ord_log, Called("measure", ord_i, ret))
    /\ ord_pc' = "hops"
    /\ UNCHANGED <<ord_i, ord_agents, ord_sent, ord_cycles>>

\* calc_result = calculate_probe_metrics(agents[i].ip, &result);
\* if (calc_result == 0) { ... }
OrderMeasure(ret) ==
    /\ ord_pc = "measure"
    /\ ord_calc' = ret
    /\ ord_log' = Append(ord_log, Called("measure", ord_i, ret))
    /\ IF ret = 0
       THEN ord_pc' = "hops" /\ UNCHANGED ord_i
       ELSE ord_pc' = "send" /\ ord_i' = ord_i + 1
    /\ UNCHANGED <<ord_agents, ord_sent, ord_cycles>>

\* hop_count = get_path_hops(agents[i].ip, path_hops, MAX_HOPS); the hops
\* are copied into the result
OrderHops(hop_count) ==
    /\ ord_pc = "hops"
    /\ ord_log' = Append(ord_log, Called("hops", ord_i, hop_count))
    /\ ord_pc' = "record"
    /\ UNCHANGED <<ord_i, ord_agents, ord_sent, ord_calc, ord_cycles>>

\* the store into probe_history under history_mutex; the next target
OrderRecord ==
    /\ ord_pc = "record"
    /\ ord_log' = Append(ord_log, Called("record", ord_i, 0))
    /\ ord_i' = ord_i + 1
    /\ ord_pc' = "send"
    /\ UNCHANGED <<ord_agents, ord_sent, ord_calc, ord_cycles>>

\* no agent: if (now - last_discovery_time > 60) perform_agent_discovery_scan()
OrderDiscover(scan) ==
    /\ ord_pc = "discover"
    /\ ord_log' = IF scan THEN Append(ord_log, Called("scan", 0, 0)) ELSE ord_log
    /\ ord_pc' = "export"
    /\ UNCHANGED <<ord_i, ord_agents, ord_sent, ord_calc, ord_cycles>>

\* export_network_to_json("/tmp/meshmon_network.json");
OrderExport ==
    /\ ord_pc = "export"
    /\ ord_log' = Append(ord_log, Called("export", 0, 0))
    /\ ord_pc' = "stamp"
    /\ UNCHANGED <<ord_i, ord_agents, ord_sent, ord_calc, ord_cycles>>

\* last_probe_time = now; } sleep(5);
OrderEnd ==
    /\ ord_pc = "stamp"
    /\ ord_pc' = "idle"
    /\ UNCHANGED <<ord_i, ord_agents, ord_sent, ord_calc, ord_log, ord_cycles>>

InitOrder ==
    /\ ord_pc = "idle"
    /\ ord_i = 1
    /\ ord_agents = <<>>
    /\ ord_sent = 0
    /\ ord_calc = 0
    /\ ord_log = <<>>
    /\ ord_cycles = 0

(***************************************************************************)
(* The history ring shared by mesh_monitor_thread, which stores, and the   *)
(* callers of get_recent_probes, which read (mesh_monitor.c).  memcpy is   *)
(* not atomic: a slot is partly written between WriterCopyBegin and        *)
(* WriterCopyEnd.                                                          *)
(***************************************************************************)
\* A slot that memcpy has begun to overwrite with res: neither the old
\* result nor the new one
TornSlot(res) == [timestamp |-> -res.timestamp]

\* pthread_mutex_lock(&history_mutex) in mesh_monitor_thread
WriterLock ==
    /\ wr_pc = "idle"
    /\ Len(stored) < MaxRecords
    /\ history_mutex = "free"
    /\ history_mutex' = "scheduler"
    /\ wr_pc' = "locked"
    /\ UNCHANGED <<ringVars, rd_pc>>

\* memcpy(&probe_history[probe_history_index], &result, ...) under way
WriterCopyBegin ==
    /\ wr_pc = "locked"
    /\ probe_history' = StoreResult(probe_history, probe_history_index,
                                    TornSlot([timestamp |-> clock + 1]))
    /\ wr_pc' = "copying"
    /\ UNCHANGED <<probe_history_index, stored, recent, clock,
                   history_mutex, rd_pc>>

\* The memcpy is complete, then probe_history_index moves on
WriterCopyEnd ==
    /\ wr_pc = "copying"
    /\ RecordResult([timestamp |-> clock + 1])
    /\ clock' = clock + 1
    /\ wr_pc' = "stored"
    /\ UNCHANGED <<recent, history_mutex, rd_pc>>

\* pthread_mutex_unlock(&history_mutex) in mesh_monitor_thread
WriterUnlock ==
    /\ wr_pc = "stored"
    /\ history_mutex' = "free"
    /\ wr_pc' = "idle"
    /\ UNCHANGED <<ringVars, rd_pc>>

\* get_recent_probes returns 0 before it takes the lock
ReaderReturnsEarly(max_results) ==
    /\ rd_pc = "idle"
    /\ max_results <= 0
    /\ recent' = [called |-> TRUE, max_results |-> max_results,
                  results |-> <<>>]
    /\ UNCHANGED <<probe_history, probe_history_index, stored, clock,
                   readerVars>>

\* A get_recent_probes that reads without taking history_mutex
ReaderNoLock ==
    /\ rd_pc = "idle"
    /\ rd_pc' = "locked"
    /\ UNCHANGED <<ringVars, history_mutex, wr_pc>>
\* pthread_mutex_lock(&history_mutex) in get_recent_probes
ReaderLock ==
    /\ rd_pc = "idle"
    /\ history_mutex = "free"
    /\ history_mutex' = "reader"
    /\ rd_pc' = "locked"
    /\ UNCHANGED <<ringVars, wr_pc>>

\* The copy loop of get_recent_probes
ReaderCopy(max_results) ==
    /\ rd_pc = "locked"
    /\ max_results > 0
    /\ GetRecentProbes(max_results)
    /\ rd_pc' = "copied"
    /\ UNCHANGED <<history_mutex, wr_pc>>

\* pthread_mutex_unlock(&history_mutex) in get_recent_probes
ReaderUnlock ==
    /\ rd_pc = "copied"
    /\ history_mutex' = "free"
    /\ rd_pc' = "idle"
    /\ UNCHANGED <<ringVars, wr_pc>>

InitReader ==
    /\ history_mutex = "free"
    /\ wr_pc = "idle"
    /\ rd_pc = "idle"

(***************************************************************************)
(* quality_monitor_dequeue_response with its wait on g_response_queue_cond *)
(* (phone_quality_monitor.c).  Every step below runs with                  *)
(* g_response_queue_mutex held; pthread_cond_timedwait gives the mutex up  *)
(* while the thread is "waiting".  A thread that can run does so before    *)
(* the clock moves on.                                                     *)
(***************************************************************************)
Dequeuers == {"d1", "d2"}

\* clock_gettime(CLOCK_REALTIME, &ts)
ClockGettime(ms) ==
    [tv_sec |-> ms \div 1000, tv_nsec |-> (ms % 1000) * 1000000]

\* ts.tv_sec += timeout_ms / 1000; ts.tv_nsec += (timeout_ms % 1000) * 1000000;
\* if (ts.tv_nsec >= 1000000000) { ts.tv_sec++; ts.tv_nsec -= 1000000000; }
AbsTimeout(ts, timeout_ms) ==
    LET sec == ts.tv_sec + timeout_ms \div 1000
        nsec == ts.tv_nsec + (timeout_ms % 1000) * 1000000
    IN IF nsec >= 1000000000
       THEN [tv_sec |-> sec + 1, tv_nsec |-> nsec - 1000000000]
       ELSE [tv_sec |-> sec, tv_nsec |-> nsec]

\* pthread_cond_timedwait: the absolute time ts has passed
Expired(ts, ms) ==
    LET t == ClockGettime(ms)
    IN \/ t.tv_sec > ts.tv_sec
       \/ t.tv_sec = ts.tv_sec /\ t.tv_nsec >= ts.tv_nsec

\* A loop that starts the timeout again each time it waits
RestartDeadline(ts, ms, timeout_ms) == AbsTimeout(ClockGettime(ms), timeout_ms)
\* The loop waits again with the ts computed before it
KeepDeadline(ts, ms, timeout_ms) == ts

IdleDequeuer == [pc |-> "idle", ts |-> ClockGettime(0), timeout_ms |-> 0,
                 called_at |-> 0, ret |-> 0, id |-> 0]

\* quality_monitor_dequeue_response(buffer, buffer_size, timeout_ms) is
\* called: ts is computed, then the thread asks for the mutex
DequeueCall(t, timeout_ms) ==
    /\ dq[t].pc = "idle"
    /\ dq' = [dq EXCEPT ![t] =
                 [pc |-> "lock",
                  ts |-> AbsTimeout(ClockGettime(clock_ms), timeout_ms),
                  timeout_ms |-> timeout_ms, called_at |-> clock_ms,
                  ret |-> 0, id |-> 0]]
    /\ UNCHANGED <<queueVars, clock_ms, returned>>

\* The loop test fails: the entry at the read index is copied and returned
DequeueTake(t, buffer_size) ==
    /\ dq[t].pc \in {"lock", "woken"}
    /\ g_response_queue_read # g_response_queue_write
    /\ DequeueResponse(buffer_size)
    /\ dq' = [dq EXCEPT ![t].pc = "idle", ![t].ret = dequeue_ret'.ret,
                        ![t].id = dequeue_ret'.id]
    /\ returned' = Append(returned, dequeue_ret'.id)
    /\ UNCHANGED clock_ms

\* The loop test holds: pthread_cond_timedwait(&cond, &mutex, &ts)
DequeueWait(t) ==
    /\ dq[t].pc \in {"lock", "woken"}
    /\ g_response_queue_read = g_response_queue_write
    /\ dq' = [dq EXCEPT ![t].pc = "waiting",
                        ![t].ts = KeepDeadline(dq[t].ts, clock_ms,
                                               dq[t].timeout_ms)]
    /\ UNCHANGED <<queueVars, clock_ms, returned>>

\* rc == ETIMEDOUT: unlock and return 0, whatever the queue holds
DequeueTimeout(t) ==
    /\ dq[t].pc = "waiting"
    /\ Expired(dq[t].ts, clock_ms)
    /\ dq' = [dq EXCEPT ![t].pc = "idle", ![t].ret = 0, ![t].id = 0]
    /\ dequeue_ret' = [called |-> TRUE, ret |-> 0, id |-> 0]
    /\ UNCHANGED <<g_response_queue, g_response_queue_read,
                   g_response_queue_write, enqueued, delivered, clock_ms,
                   returned>>

\* pthread_cond_timedwait returns 0 with no signal sent (a spurious wakeup)
DequeueSpuriousWakeup(t) ==
    /\ dq[t].pc = "waiting"
    /\ ~Expired(dq[t].ts, clock_ms)
    /\ dq' = [dq EXCEPT ![t].pc = "woken"]
    /\ UNCHANGED <<queueVars, clock_ms, returned>>

\* pthread_cond_signal(&g_response_queue_cond): a waiting thread, if there is
\* one, leaves its wait
CondSignal(t) ==
    IF \A u \in Dequeuers : dq[u].pc # "waiting" THEN dq' = dq
    ELSE /\ dq[t].pc = "waiting"
         /\ dq' = [dq EXCEPT ![t].pc = "woken"]

\* quality_monitor_handle_response(buffer, len) with its signal, waking t
EnqueueAndSignal(len, t) ==
    /\ enqueued < MaxWaitMessages
    /\ HandleResponse(len)
    /\ IF enqueued' = enqueued THEN dq' = dq ELSE CondSignal(t)
    /\ UNCHANGED <<clock_ms, returned>>

\* Time passes while no thread can run and no wait has expired
ClockAdvances(ms) ==
    /\ clock_ms < MaxClockMs
    /\ \A t \in Dequeuers :
          \/ dq[t].pc = "idle"
          \/ dq[t].pc = "waiting" /\ ~Expired(dq[t].ts, clock_ms)
    /\ clock_ms' = clock_ms + ms
    /\ UNCHANGED <<queueVars, dq, returned>>

InitWait ==
    /\ clock_ms = 0
    /\ dq = [t \in Dequeuers |-> IdleDequeuer]
    /\ returned = <<>>

(***************************************************************************)
(* The media probe (sip_quality_lib.c): test_phone_quality with            *)
(* send_invite, extract_to_tag, parse_sdp, process_rtp_packet.  A SIP      *)
(* message is the sequence of its words; the RTP statistics leave out the  *)
(* jitter estimate.                                                        *)
(***************************************************************************)
\* config.invite_timeout_ms of get_default_config
invite_timeout_ms == 5000

\* strstr(text, phrase) != NULL, on words
Strstr(text, phrase) ==
    \E i \in 1 .. Len(text) - Len(phrase) + 1 :
        SubSeq(text, i, i + Len(phrase) - 1) = phrase

\* what follows the first occurrence of phrase in text, phrase included
\* (the pointer strstr returns); <<>> for NULL
StrstrFrom(text, phrase) ==
    IF ~Strstr(text, phrase) THEN <<>>
    ELSE LET i == CHOOSE i \in 1 .. Len(text) - Len(phrase) + 1 :
                     /\ SubSeq(text, i, i + Len(phrase) - 1) = phrase
                     /\ \A j \in 1 .. i - 1 :
                           SubSeq(text, j, j + Len(phrase) - 1) # phrase
         IN SubSeq(text, i, Len(text))

\* The status lines of the responses and the headers of a 200 OK
Trying == <<"SIP/2.0", "100", "Trying">>
Ringing == <<"SIP/2.0", "180", "Ringing">>
SessionProgress == <<"SIP/2.0", "183", "Session", "Progress">>
BusyHere == <<"SIP/2.0", "486", "Busy", "Here">>
Decline == <<"SIP/2.0", "603", "Decline">>
NotFound == <<"SIP/2.0", "404", "Not", "Found">>
RequestTerminated == <<"SIP/2.0", "487", "Request", "Terminated">>
OkLine == <<"SIP/2.0", "200", "OK">>
FromHeader == <<"From:", "tag=", "a1">>
ToHeaderTagged == <<"To:", "tag=", "b2">>
ToHeaderBare == <<"To:">>
Sdp == <<"c=IN IP4 ", "10.0.0.9", "m=audio ", "20000">>

\* extract_to_tag: "To:" (or "to:"), then "tag=" after it
ExtractToTag(response) ==
    LET to_line == IF Strstr(response, <<"To:">>)
                   THEN StrstrFrom(response, <<"To:">>)
                   ELSE StrstrFrom(response, <<"to:">>)
    IN IF to_line = <<>> THEN -1
       ELSE IF ~Strstr(to_line, <<"tag=">>) THEN -1 ELSE 0

\* parse_sdp: "m=audio " followed by a number
ParseSdp(sdp) ==
    LET m_line == StrstrFrom(sdp, <<"m=audio ">>)
    IN IF m_line = <<>> \/ Len(m_line) < 2 THEN -1 ELSE 0

\* A loop that never notes a 180 Ringing
RingingIgnored(response, got) == got
\* if (strstr(response, "180 Ringing") != NULL) got_180 = 1;
RingingSeen(response, got) == got \/ Strstr(response, <<"180", "Ringing">>)

\* One pass of the loop of send_invite on a datagram with len > 0: what
\* the function returns ("wait": it goes round again), *status, got_180
InviteResponse(response, got, status) ==
    IF Strstr(response, <<"200", "OK">>)
    THEN [ret |-> "0", status |-> "SUCCESS", got_180 |-> got]
    ELSE IF Strstr(response, <<"486", "Busy">>)
    THEN [ret |-> "-1", status |-> "BUSY", got_180 |-> got]
    ELSE IF \/ Strstr(response, <<"603", "Decline">>)
            \/ Strstr(response, <<"404", "Not", "Found">>)
            \/ Strstr(response, <<"487", "Request", "Terminated">>)
    THEN [ret |-> "-1", status |-> "SIP_ERROR", got_180 |-> got]
    ELSE [ret |-> "wait", status |-> status,
          got_180 |-> RingingSeen(response, got)]

\* The same pass when recvfrom gave len <= 0: the receive timeout
InviteNoDatagram(got, status) ==
    [ret |-> "-1", status |-> IF got THEN "NO_ANSWER" ELSE "SIP_TIMEOUT",
     got_180 |-> got]

\* nothing met yet; seen: the status codes of the responses received before
NoEvent == [kind |-> "none", response |-> <<>>, seen |-> {}]
\* the status codes received up to and including the event e
SeenWith(e) ==
    IF e.kind = "response" THEN e.seen \cup {e.response[2]} ELSE e.seen
NoStats == [initialized |-> FALSE, first_seq |-> 0, highest_seq |-> 0,
            packets_received |-> 0]

\* milliseconds waited, told apart up to MaxWaitedMs
Waited(ms) == IF ms > MaxWaitedMs THEN MaxWaitedMs ELSE ms

\* test_phone_quality up to the sendto of send_invite
CallStart(sent_ok) ==
    /\ call_pc = "idle"
    /\ call_status' = "SIP_ERROR"
    /\ got_180' = FALSE
    /\ invite_event' = NoEvent
    /\ invite_waited' = 0
    /\ sip_response' = <<>>
    /\ rtp_stats' = NoStats
    /\ IF sent_ok
       THEN /\ sip_sent' = <<"INVITE">>
            /\ call_pc' = "invite"
            /\ call_ret' = 0
       ELSE /\ sip_sent' = <<>>
            /\ call_pc' = "returned"
            /\ call_ret' = -1
    /\ UNCHANGED loss_report

\* What test_phone_quality does once send_invite has returned r
AfterInvite(r) ==
    /\ call_status' = r.status
    /\ got_180' = r.got_180
    /\ IF r.ret = "wait" THEN call_pc' = "invite" /\ UNCHANGED call_ret
       ELSE IF r.ret = "0" THEN call_pc' = "answered" /\ UNCHANGED call_ret
       ELSE call_pc' = "returned" /\ call_ret' = -1

\* recvfrom gives a datagram gap_ms after the last one (or the INVITE)
InviteRecv(response, gap_ms) ==
    /\ call_pc = "invite"
    /\ gap_ms < invite_timeout_ms
    /\ sip_response' = response
    /\ invite_event' = [kind |-> "response", response |-> response,
                        seen |-> SeenWith(invite_event)]
    /\ invite_waited' = Waited(invite_waited + gap_ms)
    /\ AfterInvite(InviteResponse(response, got_180, call_status))
    /\ UNCHANGED <<sip_sent, rtp_stats, loss_report>>

\* recvfrom returns after SO_RCVTIMEO with nothing
InviteTimeout ==
    /\ call_pc = "invite"
    /\ invite_event' = [kind |-> "timeout", response |-> <<>>,
                        seen |-> SeenWith(invite_event)]
    /\ invite_waited' = Waited(invite_waited + invite_timeout_ms)
    /\ AfterInvite(InviteNoDatagram(got_180, call_status))
    /\ UNCHANGED <<sip_sent, sip_response, rtp_stats, loss_report>>

\* After the 200 OK: extract_to_tag, parse_sdp (with its fallback), send_ack
CallAnswered ==
    /\ call_pc = "answered"
    /\ IF ExtractToTag(sip_response) < 0
       THEN /\ call_status' = "SIP_ERROR"
            /\ call_pc' = "returned"
            /\ call_ret' = -1
            /\ UNCHANGED sip_sent
       ELSE /\ sip_sent' = Append(sip_sent, "ACK")
            /\ call_pc' = "media"
            /\ UNCHANGED <<call_status, call_ret>>
    /\ UNCHANGED <<got_180, sip_response, invite_event, invite_waited,
                   rtp_stats, loss_report>>

\* sizeof(rtp_header_t)
SizeofRtpHeader == 12

\* A uint32_t as its two 16-bit halves; n is an int
U32(n) == [hi |-> (n \div 65536) % 65536, lo |-> n % 65536]
\* a - b in uint32_t
U32Sub(a, b) ==
    LET lo == a.lo - b.lo
        borrow == IF lo < 0 THEN 1 ELSE 0
    IN [hi |-> (a.hi - b.hi - borrow) % 65536, lo |-> lo % 65536]
\* a <= b in uint32_t
U32Le(a, b) == a.hi < b.hi \/ (a.hi = b.hi /\ a.lo <= b.lo)

\* (int16_t)(a - b) for uint16_t a, b
Int16Diff(a, b) ==
    LET d == (a - b) % 65536
    IN IF d >= 32768 THEN d - 65536 ELSE d

\* process_rtp_packet(packet, len, stats), the jitter apart
ProcessRtpPacket(seq, len, stats) ==
    IF len < SizeofRtpHeader THEN stats
    ELSE IF ~stats.initialized
    THEN [initialized |-> TRUE, first_seq |-> seq, highest_seq |-> seq,
          packets_received |-> 1]
    ELSE [stats EXCEPT
             !.highest_seq = IF Int16Diff(seq, stats.highest_seq) > 0
                             THEN seq ELSE stats.highest_seq,
             !.packets_received = stats.packets_received + 1]

\* packets needed for a result
MinRtpPackets == 5

\* "Calculate LOCAL RTP-based metrics" of test_phone_quality: expected and
\* lost are uint32_t, loss_fraction is the quotient lost / expected of doubles
RtpMetrics(stats) ==
    IF stats.initialized /\ stats.packets_received >= MinRtpPackets
    THEN LET expected == U32(stats.highest_seq - stats.first_seq + 1)
             lost == U32Sub(expected, U32(stats.packets_received))
         IN [status |-> "SUCCESS", expected |-> expected,
             packets_lost |-> lost,
             loss_fraction |-> [num |-> lost, den |-> expected]]
    ELSE [status |-> "NO_RR", expected |-> U32(0), packets_lost |-> U32(0),
          loss_fraction |-> [num |-> U32(0), den |-> U32(1)]]

NoReport == [status |-> "none", expected |-> U32(0), packets_lost |-> U32(0),
             loss_fraction |-> [num |-> U32(0), den |-> U32(1)]]

\* drain_rtp_packets takes an RTP packet of the phone off rtp_sock
RtpArrive(seq, len) ==
    /\ call_pc = "media"
    /\ rtp_stats.packets_received < MaxRtp
    /\ rtp_stats' = ProcessRtpPacket(seq, len, rtp_stats)
    /\ rtp_stats' # rtp_stats
    /\ UNCHANGED <<call_pc, got_180, call_status, call_ret, sip_sent,
                   sip_response, invite_event, invite_waited, loss_report>>

\* The burst is over: metrics, send_bye, cleanup, return
CallFinish ==
    /\ call_pc = "media"
    /\ loss_report' = RtpMetrics(rtp_stats)
    /\ call_status' = loss_report'.status
    /\ sip_sent' = Append(sip_sent, "BYE")
    /\ call_ret' = IF loss_report'.status = "SUCCESS" THEN 0 ELSE -1
    /\ call_pc' = "returned"
    /\ UNCHANGED <<got_180, sip_response, invite_event, invite_waited,
                   rtp_stats>>

InitCall ==
    /\ call_pc = "idle"
    /\ got_180 = FALSE
    /\ call_status = "SIP_ERROR"
    /\ call_ret = 0
    /\ sip_sent = <<>>
    /\ sip_response = <<>>
    /\ invite_event = NoEvent
    /\ invite_waited = 0
    /\ rtp_stats = NoStats
    /\ loss_report = NoReport

(***************************************************************************)
(* probe_responder_thread statement by statement, while                    *)
(* mesh_monitor_shutdown runs (probe_engine.c, mesh_monitor.c).  Both      *)
(* sockets are non-blocking: recvfrom returns at once.                     *)
(***************************************************************************)
\* what recvfrom on the open responder socket can give
RecvOutcomes == {"EAGAIN", "error", "short", "badip", "probe"}

\* A responder that goes round its loop whatever happens
RespLoopsOn(pc, running, sock, recv) ==
    IF pc = "test" THEN "recv"
    ELSE IF pc = "recv"
    THEN IF sock < 0 \/ recv \in {"EAGAIN", "error"} THEN "sleep"
         ELSE IF recv = "probe" THEN "send" ELSE "test"
    ELSE "test"
\* The statement probe_responder_thread goes to next: while (engine_running);
\* n < 0 with EAGAIN: usleep, continue; any other error (EBADF on a closed
\* socket): break; short packet or bad return_ip: continue; else sendto
RespGoes(pc, running, sock, recv) ==
    IF pc = "test" THEN IF running THEN "recv" ELSE "exited"
    ELSE IF pc = "recv"
    THEN IF sock < 0 \/ recv = "error" THEN "exited"
         ELSE IF recv = "EAGAIN" THEN "sleep"
         ELSE IF recv = "probe" THEN "send" ELSE "test"
    ELSE "test"

\* One statement of probe_responder_thread
RespAdvance(recv) ==
    /\ resp_pc # "exited"
    /\ resp_pc' = RespGoes(resp_pc, engine_running, responder_socket, recv)
    /\ responder' = IF resp_pc' = "exited" THEN "exited" ELSE responder
    /\ resp_echoes' = IF resp_pc = "send" /\ responder_socket >= 0
                         /\ resp_echoes < MaxEchoes
                      THEN resp_echoes + 1 ELSE resp_echoes
    /\ UNCHANGED <<probeVars, ringVars, monitor_enabled, monitor_running,
                   agent_cache, sched_pc, sched_i, agents, since_probe, cycles,
                   shut_pc, responder_socket>>

\* mesh_monitor_shutdown up to the call of probe_engine_shutdown
JoinBegin ==
    /\ ShutdownBegin
    /\ UNCHANGED joinVars

\* probe_engine_shutdown: the flag cleared, both sockets closed
JoinStopEngine ==
    /\ ProbeEngineShutdown
    /\ responder_socket' = -1
    /\ UNCHANGED <<resp_pc, resp_echoes>>

\* pthread_join(responder_tid, NULL) returns, then the rest of the shutdown
JoinFinish ==
    /\ ShutdownFinish
    /\ UNCHANGED joinVars

InitJoin ==
    /\ responder_socket = 4
    /\ resp_pc = "test"
    /\ resp_echoes = 0

(***************************************************************************)
(* The remote reporter (remote_reporter.c): remote_reporter_thread and     *)
(* remote_reporter_shutdown.  The two time stamps are kept as the seconds  *)
(* passed since them, up to the interval they are compared with.           *)
(***************************************************************************)
\* "Send health report every 60 seconds"
HealthReportS == 60
\* config->network_status_report_s of the default configuration
network_status_report_s == 40
\* sleep(10)
ReporterSleepS == 10

\* seconds since a time stamp after a sleep, told apart up to interval
SinceAfterSleep(since, interval) ==
    IF since + ReporterSleepS >= interval THEN interval
    ELSE since + ReporterSleepS

\* remote_reporter_thread from its entry to the loop: reporter_running = true;
\* last_health_report = 0; last_network_report = 0
ReporterStart ==
    /\ rep_pc = "created"
    /\ reporter_running' = TRUE
    /\ since_health' = HealthReportS
    /\ since_network' = network_status_report_s
    /\ rep_pc' = "test"
    /\ UNCHANGED <<rep_shutdown, rep_sent>>

\* while (reporter_running)
ReporterTest ==
    /\ rep_pc = "test"
    /\ rep_pc' = IF reporter_running THEN "report" ELSE "exited"
    /\ UNCHANGED <<reporter_running, rep_shutdown, since_health,
                   since_network, rep_sent>>

\* The two tests on now and the reports they send
ReporterReport ==
    /\ rep_pc = "report"
    /\ LET health == since_health >= HealthReportS
           network == /\ network_status_report_s > 0
                      /\ since_network >= network_status_report_s
           sent == (IF health THEN 1 ELSE 0) + (IF network THEN 1 ELSE 0)
       IN /\ since_health' = IF health THEN 0 ELSE since_health
          /\ since_network' = IF network THEN 0 ELSE since_network
          /\ rep_sent' = IF rep_shutdown = "no" THEN rep_sent
                         ELSE IF rep_sent + sent > MaxReports THEN MaxReports
                         ELSE rep_sent + sent
    /\ rep_pc' = "sleep"
    /\ UNCHANGED <<reporter_running, rep_shutdown>>

\* sleep(10)
ReporterSleep ==
    /\ rep_pc = "sleep"
    /\ since_health' = SinceAfterSleep(since_health, HealthReportS)
    /\ since_network' = SinceAfterSleep(since_network,
                                        network_status_report_s)
    /\ rep_pc' = "test"
    /\ UNCHANGED <<reporter_running, rep_shutdown, rep_sent>>

\* remote_reporter_shutdown()
RemoteReporterShutdown ==
    /\ rep_shutdown = "no"
    /\ reporter_running' = FALSE
    /\ rep_shutdown' = IF rep_pc = "created" THEN "early" ELSE "late"
    /\ UNCHANGED <<rep_pc, since_health, since_network, rep_sent>>

InitReporter ==
    /\ reporter_running = FALSE
    /\ rep_pc = "created"
    /\ rep_shutdown = "no"
    /\ since_health = 0
    /\ since_network = 0
    /\ rep_sent = 0

(***************************************************************************)
(* Start-up of the mesh monitor: mesh_monitor_init (mesh_monitor.c) with   *)
(* routing_adapter_init, probe_engine_init and agent_discovery_init, step  *)
(* by step in the thread that calls it.                                    *)
(***************************************************************************)
MONITOR_MODE_DISABLED == 0
MONITOR_MODE_LIGHTWEIGHT == 1
MONITOR_MODE_FULL == 2
ROUTING_AUTO == 0
ROUTING_OLSR == 1
ROUTING_BABEL == 2

\* what the start-up leaves alone of the probe engine, the scheduler and the
\* responder thread
restOfBootEngine == <<pending_probes, probe_rx, result, send_ret, window,
                      resp_pc, resp_echoes>>
restOfBootSched == <<monitor_running, agent_cache, sched_pc, sched_i, agents,
                     since_probe, cycles, shut_pc>>

\* the step of mesh_monitor_init that has just returned ret
StepTaken(step, ret) == Append(init_steps, [step |-> step, ret |-> ret])

\* detect_routing_daemon(): olsrd.pid and babeld.pid are whether
\* /var/run/olsrd.pid and /var/run/babeld.pid exist
DetectRoutingDaemon(olsrd_pid, babeld_pid) ==
    IF olsrd_pid THEN ROUTING_OLSR
    ELSE IF babeld_pid THEN ROUTING_BABEL
    ELSE ROUTING_AUTO

\* mesh_monitor_init(config) up to its first initialisation: the
\* configuration is copied and tested
MeshMonitorInit(config) ==
    /\ init_pc = "idle"
    /\ g_monitor_config' = config
    /\ IF ~config.enabled \/ config.mode = MONITOR_MODE_DISABLED
       THEN init_ret' = 0 /\ init_pc' = "returned"
       ELSE init_pc' = "adapter" /\ UNCHANGED init_ret
    /\ UNCHANGED <<adapter_initialized, current_daemon, init_steps>>
    /\ UNCHANGED <<engine_running, probe_socket, responder_socket,
                   monitor_enabled, responder, restOfBootEngine,
                   restOfBootSched, cacheVars>>

\* routing_adapter_init(g_monitor_config.routing_daemon), and the return of
\* mesh_monitor_init when it fails
InitRoutingAdapter(olsrd_pid, babeld_pid) ==
    LET daemon == IF g_monitor_config.routing_daemon = ROUTING_AUTO
                  THEN DetectRoutingDaemon(olsrd_pid, babeld_pid)
                  ELSE g_monitor_config.routing_daemon
    IN  /\ init_pc = "adapter"
        /\ current_daemon' = daemon
        /\ IF daemon = ROUTING_AUTO
           THEN /\ init_steps' = StepTaken("routing_adapter", -1)
                /\ init_ret' = -1
                /\ init_pc' = "returned"
                /\ UNCHANGED adapter_initialized
           ELSE /\ init_steps' = StepTaken("routing_adapter", 0)
                /\ adapter_initialized' = TRUE
                /\ init_pc' = "engine"
                /\ UNCHANGED init_ret
        /\ UNCHANGED g_monitor_config
        /\ UNCHANGED <<engine_running, probe_socket, responder_socket,
                       monitor_enabled, responder, restOfBootEngine,
                       restOfBootSched, cacheVars>>

\* what socket() and bind() can do to probe_engine_init
EngineOutcomes == {"socket", "bind", "responder_socket", "responder_bind", "ok"}

\* probe_engine_init(&g_monitor_config): failed names the call that fails
\* ("ok": none does); every failure path leaves both sockets closed.  When it
\* fails mesh_monitor_init calls routing_adapter_shutdown() and returns -1.
InitProbeEngine(failed) ==
    /\ init_pc = "engine"
    /\ IF failed = "ok"
       THEN /\ probe_socket' = 3
            /\ responder_socket' = 4
            /\ engine_running' = TRUE
            /\ init_steps' = StepTaken("probe_engine", 0)
            /\ init_pc' = "discovery"
            /\ UNCHANGED <<adapter_initialized, init_ret>>
       ELSE /\ probe_socket' = -1
            /\ responder_socket' = IF failed \in {"socket", "bind"}
                                   THEN responder_socket ELSE -1
            /\ UNCHANGED engine_running
            /\ init_steps' = StepTaken("probe_engine", -1)
            /\ adapter_initialized' = FALSE
            /\ init_ret' = -1
            /\ init_pc' = "returned"
    /\ UNCHANGED <<g_monitor_config, current_daemon>>
    /\ UNCHANGED <<monitor_enabled, responder, restOfBootEngine,
                   restOfBootSched, cacheVars>>

\* agent_discovery_init(): it returns 0 always
InitAgentDiscovery ==
    /\ init_pc = "discovery"
    /\ AgentDiscoveryInit
    /\ init_steps' = StepTaken("agent_discovery", 0)
    /\ init_pc' = "thread"
    /\ UNCHANGED <<g_monitor_config, adapter_initialized, current_daemon,
                   init_ret>>
    /\ UNCHANGED <<engine_running, probe_socket, responder_socket,
                   monitor_enabled, responder, restOfBootEngine,
                   restOfBootSched>>

\* pthread_create(&responder_tid, NULL, probe_responder_thread, NULL) and
\* the end of mesh_monitor_init: when no thread is created,
\* probe_engine_shutdown() and routing_adapter_shutdown() are called
InitResponderThread(created) ==
    /\ init_pc = "thread"
    /\ IF created
       THEN /\ responder' = "running"
            /\ monitor_enabled' = TRUE
            /\ init_steps' = StepTaken("thread", 0)
            /\ init_ret' = 0
            /\ UNCHANGED <<engine_running, probe_socket, responder_socket,
                           adapter_initialized>>
       ELSE /\ engine_running' = FALSE
            /\ probe_socket' = -1
            /\ responder_socket' = -1
            /\ adapter_initialized' = FALSE
            /\ init_steps' = StepTaken("thread", -1)
            /\ init_ret' = -1
            /\ UNCHANGED <<responder, monitor_enabled>>
    /\ init_pc' = "returned"
    /\ UNCHANGED <<g_monitor_config, current_daemon>>
    /\ UNCHANGED <<restOfBootEngine, restOfBootSched, cacheVars>>

\* the cache file an earlier run left, found before mesh_monitor_init runs
BootCacheFileFound(file) ==
    /\ init_pc = "idle"
    /\ CacheFileFound(file)
    /\ UNCHANGED bootVars
    /\ UNCHANGED <<engine_running, probe_socket, responder_socket,
                   monitor_enabled, responder, restOfBootEngine,
                   restOfBootSched>>

InitBoot ==
    /\ init_pc = "idle"
    /\ g_monitor_config = [enabled |-> FALSE, mode |-> MONITOR_MODE_LIGHTWEIGHT,
                           routing_daemon |-> ROUTING_AUTO]
    /\ adapter_initialized = FALSE
    /\ current_daemon = ROUTING_AUTO
    /\ init_steps = <<>>
    /\ init_ret = 0

\* the process before mesh_monitor_init is called: no socket, no thread,
\* nothing running
InitBeforeBoot ==
    /\ engine_running = FALSE
    /\ probe_socket = -1
    /\ pending_probes = <<>>
    /\ probe_rx = <<>>
    /\ result = NoResult
    /\ send_ret = NoSend
    /\ window = NoWindow
    /\ monitor_enabled = FALSE
    /\ monitor_running = FALSE
    /\ responder = "none"
    /\ agent_cache = <<>>
    /\ sched_pc = "start"
    /\ sched_i = 1
    /\ agents = <<>>
    /\ since_probe = 0
    /\ cycles = 0
    /\ shut_pc = "idle"
    /\ responder_socket = -1
    /\ resp_pc = "test"
    /\ resp_echoes = 0
    /\ InitRing /\ InitResp /\ InitHealth /\ InitExport /\ InitQueue
    /\ InitCache /\ InitRecords /\ InitQuality /\ InitCycle /\ InitMemory
    /\ InitLink /\ InitWindow /\ InitOrder /\ InitReader /\ InitWait
    /\ InitCall /\ InitReporter /\ InitBoot

(***************************************************************************)
(* Specifications.                                                         *)
(***************************************************************************)
Init == InitProbe /\ InitRing /\ InitSched /\ InitResp /\ InitHealth
        /\ InitExport /\ InitQueue
        /\ InitCache
        /\ InitRecords
        /\ InitQuality
        /\ InitCycle
        /\ InitMemory
        /\ InitLink
        /\ InitWindow
        /\ InitOrder
        /\ InitReader
        /\ InitWait
        /\ InitCall
        /\ InitJoin
        /\ InitReporter
        /\ InitBoot

\* the variables the actions of each part leave to the other parts
restOfProbe == <<ringVars, schedVars, respVars, healthVars, exportVars,
                 queueVars, cacheVars, recordVars, qualityVars, cycleVars,
                 memVars, linkVars, windowVars, orderVars, readerVars,
                 waitVars, callVars, joinVars, reporterVars, bootVars>>
restOfSched == <<respVars, healthVars, exportVars, queueVars, cacheVars,
                 recordVars, qualityVars, cycleVars, memVars, linkVars,
                 windowVars, orderVars, readerVars, waitVars, callVars,
                 joinVars, reporterVars, bootVars>>
restOfRing == <<probeVars, schedVars, respVars, healthVars, exportVars,
                queueVars, cacheVars, recordVars, qualityVars, cycleVars,
                memVars, linkVars, windowVars, orderVars, readerVars,
                waitVars, callVars, joinVars, reporterVars, bootVars>>
restOfResp == <<healthVars, exportVars, queueVars, cacheVars, recordVars,
                qualityVars, cycleVars, memVars, linkVars, windowVars,
                orderVars, readerVars, waitVars, callVars, joinVars,
                reporterVars, bootVars>>
restOfHealth == <<probeVars, ringVars, schedVars, respVars, exportVars,
                  queueVars, cacheVars, recordVars, qualityVars, cycleVars,
                  memVars, linkVars, windowVars, orderVars, readerVars,
                  waitVars, callVars, joinVars, reporterVars, bootVars>>
restOfExport == <<probeVars, ringVars, schedVars, respVars, healthVars,
                  queueVars, cacheVars, recordVars, qualityVars, cycleVars,
                  memVars, linkVars, windowVars, orderVars, readerVars,
                  waitVars, callVars, joinVars, reporterVars, bootVars>>
restOfQueue == <<probeVars, ringVars, schedVars, respVars, healthVars,
                 exportVars, cacheVars, recordVars, qualityVars, cycleVars,
                 memVars, linkVars, windowVars, orderVars, readerVars,
                 waitVars, callVars, joinVars, reporterVars, bootVars>>
restOfCache == <<probeVars, ringVars, schedVars, respVars, healthVars,
                 exportVars, queueVars, recordVars, qualityVars, cycleVars,
                 memVars, linkVars, windowVars, orderVars, readerVars,
                 waitVars, callVars, joinVars, reporterVars, bootVars>>
restOfRecords == <<probeVars, ringVars, schedVars, respVars, exportVars,
                   queueVars, cacheVars, call_stack, crash_disposition,
                   g_crash_history, crash_json, crash_file, signals, process,
                   qualityVars, cycleVars, memVars, linkVars, windowVars,
                   orderVars, readerVars, waitVars, callVars, joinVars,
                   reporterVars, bootVars>>
restOfQuality == <<probeVars, ringVars, schedVars, respVars, healthVars,
                   exportVars, queueVars, cacheVars, recordVars, cycleVars,
                   memVars, linkVars, windowVars, orderVars, readerVars,
                   waitVars, callVars, joinVars, reporterVars, bootVars>>
restOfCycle == <<probeVars, ringVars, schedVars, respVars, healthVars,
                 exportVars, queueVars, cacheVars, recordVars, qualityVars,
                 memVars, linkVars, windowVars, orderVars, readerVars,
                 waitVars, callVars, joinVars, reporterVars, bootVars>>
restOfMemory == <<probeVars, ringVars, schedVars, respVars, exportVars,
                  queueVars, cacheVars, call_stack, crash_disposition,
                  g_crash_history, crash_json, crash_file, signals, process,
                  qualityVars, cycleVars, linkVars, windowVars, orderVars,
                  readerVars, waitVars, callVars, joinVars, reporterVars,
                  bootVars>>
restOfLink == <<probeVars, ringVars, schedVars, respVars, healthVars,
                exportVars, queueVars, cacheVars, recordVars, qualityVars,
                cycleVars, memVars, windowVars, orderVars, readerVars,
                waitVars, callVars, joinVars, reporterVars, bootVars>>
restOfWindow == <<ringVars, schedVars, respVars, healthVars, exportVars,
                  queueVars, cacheVars, recordVars, qualityVars, cycleVars,
                  memVars, linkVars, orderVars, readerVars, waitVars,
                  callVars, joinVars, reporterVars, bootVars>>
restOfOrder == <<probeVars, ringVars, schedVars, respVars, healthVars,
                 exportVars, queueVars, cacheVars, recordVars, qualityVars,
                 cycleVars, memVars, linkVars, windowVars, readerVars,
                 waitVars, callVars, joinVars, reporterVars, bootVars>>
restOfReader == <<probeVars, schedVars, respVars, healthVars, exportVars,
                  queueVars, cacheVars, recordVars, qualityVars, cycleVars,
                  memVars, linkVars, windowVars, orderVars, waitVars,
                  callVars, joinVars, reporterVars, bootVars>>
restOfWait == <<probeVars, ringVars, schedVars, respVars, healthVars,
                exportVars, cacheVars, recordVars, qualityVars, cycleVars,
                memVars, linkVars, windowVars, orderVars, readerVars,
                callVars, joinVars, reporterVars, bootVars>>
restOfCall == <<probeVars, ringVars, schedVars, respVars, healthVars,
                exportVars, queueVars, cacheVars, recordVars, qualityVars,
                cycleVars, memVars, linkVars, windowVars, orderVars,
                readerVars, waitVars, joinVars, reporterVars, bootVars>>
restOfJoin == <<respVars, healthVars, exportVars, queueVars, cacheVars,
                recordVars, qualityVars, cycleVars, memVars, linkVars,
                windowVars, orderVars, readerVars, waitVars, callVars,
                reporterVars, bootVars>>
restOfReporter == <<probeVars, ringVars, schedVars, respVars, healthVars,
                    exportVars, queueVars, cacheVars, recordVars,
                    qualityVars, cycleVars, memVars, linkVars, windowVars,
                    orderVars, readerVars, waitVars, callVars, joinVars,
                    bootVars>>
restOfBoot == <<ringVars, respVars, healthVars, exportVars, queueVars,
                recordVars, qualityVars, cycleVars, memVars, linkVars,
                windowVars, orderVars, readerVars, waitVars, callVars,
                reporterVars>>

\* ---- the probe engine driven by arbitrary callers
NextProbe ==
    \/ \E h \in Hosts, count \in 1 .. MaxBurst :
         \E okSet \in SUBSET (0 .. count - 1) :
            ProbeSend(h, count, okSet) /\ UNCHANGED restOfProbe
    \/ \E seq \in 0 .. MaxBurst - 1 :
         ProbeEcho(seq, "full") /\ UNCHANGED restOfProbe
    \/ ProbeEcho(0, "short") /\ UNCHANGED restOfProbe
    \/ \E d \in IPs \cup {"nodeA"} :
         \E rtts \in [1 .. Len(RxAvailable(probe_rx)) -> RttVals] :
            ProbeCalc(d, rtts) /\ UNCHANGED restOfProbe

SpecProbe == Init /\ [][NextProbe]_vars

\* ---- the scheduler thread, the shutdown caller, the responder and the network
\* sendto outcomes of a scheduler burst: none, the first half, all packets
SchedOkSets == { {}, 0 .. 4, 0 .. SCHED_PROBE_COUNT - 1 }
\* round-trip times of the echoes of a scheduler window
SchedRttVals == {2, 10000}

NextSched ==
    \/ SchedStart /\ UNCHANGED restOfSched
    \/ SchedSetRunning /\ UNCHANGED restOfSched
    \/ SchedLoop /\ UNCHANGED restOfSched
    \/ \E okSet \in SchedOkSets : SchedSend(okSet) /\ UNCHANGED restOfSched
    \/ \E rtts \in [1 .. Len(RxAvailable(probe_rx)) -> SchedRttVals] :
          SchedMeasure(rtts) /\ UNCHANGED restOfSched
    \/ SchedRecord /\ UNCHANGED restOfSched
    \/ SchedCycleEnd /\ UNCHANGED restOfSched
    \/ SchedSleep /\ UNCHANGED restOfSched
    \/ ShutdownBegin /\ UNCHANGED restOfSched
    \/ ProbeEngineShutdown /\ UNCHANGED restOfSched
    \/ ShutdownFinish /\ UNCHANGED restOfSched
    \/ ResponderExit /\ UNCHANGED restOfSched
    \/ \E seq \in {0, 1} : SchedEcho(seq, "full") /\ UNCHANGED restOfSched

\* every step of mesh_monitor_thread
SchedStep ==
    /\ \/ SchedStart
       \/ SchedSetRunning
       \/ SchedLoop
       \/ \E okSet \in SchedOkSets : SchedSend(okSet)
       \/ \E rtts \in [1 .. Len(RxAvailable(probe_rx)) -> SchedRttVals] :
             SchedMeasure(rtts)
       \/ SchedRecord
       \/ SchedCycleEnd
       \/ SchedSleep
    /\ UNCHANGED restOfSched

\* the steps of a mesh_monitor_shutdown call under way
ShutdownProgress ==
    (ProbeEngineShutdown \/ ShutdownFinish) /\ UNCHANGED restOfSched

\* A thread that can take a step takes one in the end: the scheduler thread,
\* the caller inside mesh_monitor_shutdown, the responder seeing
\* engine_running false.
SpecSched ==
    /\ Init
    /\ [][NextSched]_vars
    /\ WF_vars(SchedStep)
    /\ WF_vars(ShutdownProgress)
    /\ WF_vars(ResponderExit /\ UNCHANGED restOfSched)

\* ---- the history ring under a stream of results and its reader
NextRing ==
    \/ RingRecord /\ UNCHANGED restOfRing
    \/ \E max_results \in {0, 1, PROBE_HISTORY_SIZE, PROBE_HISTORY_SIZE + 1} :
          RingRead(max_results) /\ UNCHANGED restOfRing

SpecRing == Init /\ [][NextRing]_vars

\* ---- the responder thread, its peers and the shutdown of the engine
NextResponder ==
    \/ \E dg \in RespDatagrams : RespArrive(dg) /\ UNCHANGED restOfResp
    \/ ResponderStep /\ UNCHANGED restOfResp
    \/ ShutdownBegin /\ UNCHANGED restOfSched
    \/ ProbeEngineShutdown /\ UNCHANGED restOfSched
    \/ ResponderExit /\ UNCHANGED restOfSched

SpecResponder == Init /\ [][NextResponder]_vars

\* ---- the threads that call the health monitor, and crash signals
NextHealth ==
    \/ \E t \in HealthThreads, f \in DOMAIN HealthCode :
          f \in HealthOps[t] /\ HealthCall(t, f) /\ UNCHANGED restOfHealth
    \/ \E t \in HealthThreads, taken \in BOOLEAN :
          HealthStep(t, taken) /\ UNCHANGED restOfHealth
    \/ \E t \in HealthThreads : CrashSignal(t) /\ UNCHANGED restOfHealth

SpecHealth == Init /\ [][NextHealth]_vars

\* ---- the exporters, with a first result in the ring, and process restarts
NextExport ==
    \/ \E e \in Exporters, relock \in RelockOutcomes :
          ExportBegin(e, relock) /\ UNCHANGED restOfExport
    \/ \E e \in Exporters, ok \in BOOLEAN :
          ExportOpen(e, ok) /\ UNCHANGED restOfExport
    \/ \E e \in Exporters, ok \in BOOLEAN :
          ExportWrite(e, ok) /\ UNCHANGED restOfExport
    \/ \E e \in Exporters, ok \in BOOLEAN :
          ExportRename(e, ok) /\ UNCHANGED restOfExport
    \/ \E e \in Exporters : ExportUnlink(e) /\ UNCHANGED restOfExport
    \/ ProcessRestart /\ UNCHANGED restOfExport
    \/ stored = <<>> /\ RingRecord
          /\ UNCHANGED <<restOfRing, exportVars>>

SpecExport == Init /\ [][NextExport]_vars

\* ---- the SIP server thread enqueueing, the quality monitor dequeueing
NextQueue ==
    \/ \E len \in MessageLens : HandleResponse(len) /\ UNCHANGED restOfQueue
    \/ \E buffer_size \in BufferSizes :
          DequeueResponse(buffer_size) /\ UNCHANGED restOfQueue

SpecQueue == Init /\ [][NextQueue]_vars

\* ---- agent discovery: initialisations, loads, saves, scans and readers
NextCache ==
    \/ \E file \in CacheFiles \ {NoCacheFile} :
          CacheFileFound(file) /\ UNCHANGED restOfCache
    \/ AgentDiscoveryInit /\ UNCHANGED restOfCache
    \/ LoadCall /\ UNCHANGED restOfCache
    \/ \E opened \in BOOLEAN : SaveCall(opened) /\ UNCHANGED restOfCache
    \/ \E opened \in BOOLEAN :
          AgentDiscoveryShutdown(opened) /\ UNCHANGED restOfCache
    \/ \E transport \in BOOLEAN :
          \E hosts \in IF transport THEN HostLists ELSE {<<>>} :
             \E passing \in IF hosts = <<>> THEN {{}} ELSE Passings,
                reachable \in IF hosts = <<>> THEN {{}} ELSE {{}, Telephones},
                stale \in IF hosts = <<>> THEN {EmptyText} ELSE StaleIps,
                opened \in IF hosts = <<>> THEN {TRUE} ELSE BOOLEAN :
                   /\ PerformAgentDiscoveryScan(transport, hosts, reachable,
                                                passing, stale, opened)
                   /\ UNCHANGED restOfCache
    \/ \E max_agents \in GetSizes : GetCall(max_agents) /\ UNCHANGED restOfCache
SpecCache == Init /\ [][NextCache]_vars

\* ---- the health records under the events that are counted and the score
\* queries; the threads register at start-up in the order of their
\* identifiers and the clock makes one step past the timeout
NextScore ==
    \/ \E t \in ThreadIds :
          /\ htime = 0
          /\ \A u \in 0 .. t - 1 : beat_at[u] # -1
          /\ RegisterThreadHealth(t)
          /\ UNCHANGED restOfRecords
    \/ \E t \in ThreadIds : UpdateThreadHeartbeat(t) /\ UNCHANGED restOfRecords
    \/ CheckThreadResponsiveness /\ UNCHANGED restOfRecords
    \/ /\ htime = 0
       /\ TimePasses(THREAD_TIMEOUT_SECONDS + 1)
       /\ UNCHANGED restOfRecords
    \/ \E leak \in BOOLEAN : MonitorMemoryUsage(leak) /\ UNCHANGED restOfRecords
    \/ CrashCounted /\ UNCHANGED restOfRecords
    \/ RecordProcessRestart /\ UNCHANGED restOfRecords
    \/ \E component \in ErrorComponents :
          RecordErrorEvent(component) /\ UNCHANGED restOfRecords
    \/ CleanupOldErrors /\ UNCHANGED restOfRecords
    \/ CalculateHealthScoreCall /\ UNCHANGED restOfRecords
    \/ IsSystemHealthyCall /\ UNCHANGED restOfRecords
    \/ GetHealthSummaryCall /\ UNCHANGED restOfRecords
    \/ SoftwareHealthShutdown /\ UNCHANGED restOfRecords
SpecScore == Init /\ [][NextScore]_vars

\* ---- thread liveness: threads registering in any order, their
\* heartbeats, the sweep and the clock
NextThreads ==
    \/ \E t \in ThreadIds : RegisterThreadHealth(t) /\ UNCHANGED restOfRecords
    \/ \E t \in ThreadIds : UpdateThreadHeartbeat(t) /\ UNCHANGED restOfRecords
    \/ CheckThreadResponsiveness /\ UNCHANGED restOfRecords
    \/ TimePasses(TickSeconds) /\ UNCHANGED restOfRecords
SpecThreads == Init /\ [][NextThreads]_vars

\* ---- the quality monitor thread, a registrar thread and the stop request
NextQuality ==
    \/ QmLock /\ UNCHANGED restOfQuality
    \/ QmScan /\ UNCHANGED restOfQuality
    \/ \E resolved \in BOOLEAN : QmResolved(resolved) /\ UNCHANGED restOfQuality
    \/ QmTest /\ UNCHANGED restOfQuality
    \/ QmProbed /\ UNCHANGED restOfQuality
    \/ QmSlept /\ UNCHANGED restOfQuality
    \/ \E opened \in BOOLEAN : QmOpenJson(opened) /\ UNCHANGED restOfQuality
    \/ QmWriteJson /\ UNCHANGED restOfQuality
    \/ QmWait /\ UNCHANGED restOfQuality
    \/ QmStop /\ UNCHANGED restOfQuality
    \/ RegistrarWants /\ UNCHANGED restOfQuality
    \/ RegistrarLocks /\ UNCHANGED restOfQuality
    \/ \E user_id \in {"", "1002"} :
          RegistrarUpdates(2, user_id) /\ UNCHANGED restOfQuality
SpecQuality == Init /\ [][NextQuality]_vars

\* ---- the scheduler's cycles over more than one discovery interval
NextCycle ==
    \/ \E targets \in 1 .. Len(MeshAgents), cached \in {<<>>, MeshAgents} :
          MonitorThreadStarts(targets, cached) /\ UNCHANGED restOfCycle
    \/ \E found \in {<<>>, MeshAgents} :
          MonitorIteration(found) /\ UNCHANGED restOfCycle
    \/ MonitorStops /\ UNCHANGED restOfCycle
SpecCycle == Init /\ [][NextCycle]_vars

\* ---- the memory check at any time, the process growing and shrinking
\* sizes get_process_rss can return: 0 (no /proc/self/status), the size at
\* the start, one and a half times it, a page more, twice it
RssValues == {0, InitialRssKb, (3 * InitialRssKb) \div 2,
              (3 * InitialRssKb) \div 2 + 4, 2 * InitialRssKb}
NextMemory ==
    \/ \E rss \in RssValues : MonitorMemoryUsageCall(rss) /\ UNCHANGED restOfMemory
    \/ MemoryTimePasses /\ UNCHANGED restOfMemory
SpecMemory == Init /\ [][NextMemory]_vars

\* ---- classify_link_type called with any name
\* beginnings of names: the documented prefixes, what is left of them when
\* characters are missing or changed, other interfaces
NameStems == { <<>>, <<"w">>, <<"w", "l">>, <<"w", "l", "a">>,
               <<"w", "l", "a", "n">>, <<"W", "l", "a", "n">>,
               <<"w", "a", "n">>, <<"t">>, <<"t", "u">>, <<"t", "u", "n">>,
               <<"t", "a", "p">>, <<"e">>, <<"e", "t">>, <<"e", "t", "h">>,
               <<"b">>, <<"b", "r">>, <<"b", "r", "-">>, <<"b", "r", "0">>,
               <<"l", "o">> }
\* ends of names
NameTails == { <<>>, <<"0">>, <<"1">>, <<"-", "l", "a", "n">>,
               <<"w", "l", "a", "n">> }
InterfaceNames ==
    {NullName} \cup { NameOf(stem \o tail) : stem \in NameStems, tail \in NameTails }
NextLink ==
    \E interface \in InterfaceNames :
        ClassifyCall(interface) /\ UNCHANGED restOfLink
SpecLink == Init /\ [][NextLink]_vars

\* ---- the pending table filled to its capacity by large bursts to several
\* targets, and cleared target by target
\* the burst size (count) passed to send_probes: more than half the table
TableBurst == 6 * SCHED_PROBE_COUNT
\* sendto outcomes of a burst: all packets sent, every second one, none
TableOkSets(count) == { 0 .. count - 1, {i \in 0 .. count - 1 : i % 2 = 0}, {} }
NextTable ==
    \/ \E h \in IPs, okSet \in TableOkSets(TableBurst) :
         TableSend(h, TableBurst, okSet) /\ UNCHANGED restOfProbe
    \/ ProbeEcho(0, "full") /\ UNCHANGED restOfProbe
    \/ \E d \in IPs :
         \E rtts \in [1 .. Len(RxAvailable(probe_rx)) -> {2, RTT_LIMIT_MS}] :
            ProbeCalc(d, rtts) /\ UNCHANGED restOfProbe
SpecTable == Init /\ [][NextTable]_vars

\* ---- bursts to one target, their echoes early or late, and the windows
NextWindow ==
    \/ \E count \in 1 .. MaxBurst :
         \E okSet \in SUBSET (0 .. count - 1) :
            WindowSend(count, okSet) /\ UNCHANGED restOfWindow
    \/ \E w \in 1 .. MaxWindows, seq \in 0 .. MaxBurst - 1 :
         WindowEcho(w, seq) /\ UNCHANGED restOfWindow
    \/ \E rtts \in [1 .. Len(RxAvailable(probe_rx)) -> RttVals] :
         WindowCalc(rtts) /\ UNCHANGED restOfWindow
SpecWindow == Init /\ [][NextWindow]_vars

\* ---- probe cycles over no, one or two targets, whatever the engine returns
NextOrder ==
    \/ \E cached \in {<<>>, <<"10.0.0.1">>, <<"10.0.0.9", "10.0.0.1">>} :
          OrderBegin(cached) /\ UNCHANGED restOfOrder
    \/ \E ret \in {-1, 0, 5, SCHED_PROBE_COUNT} :
          OrderSend(ret) /\ UNCHANGED restOfOrder
    \/ OrderWait /\ UNCHANGED restOfOrder
    \/ \E ret \in {-1, 0} : OrderMeasure(ret) /\ UNCHANGED restOfOrder
    \/ \E hop_count \in {0, 2} : OrderHops(hop_count) /\ UNCHANGED restOfOrder
    \/ OrderRecord /\ UNCHANGED restOfOrder
    \/ \E scan \in BOOLEAN : OrderDiscover(scan) /\ UNCHANGED restOfOrder
    \/ OrderExport /\ UNCHANGED restOfOrder
    \/ OrderEnd /\ UNCHANGED restOfOrder
SpecOrder == Init /\ [][NextOrder]_vars

\* ---- the history ring with its writer and a concurrent reader
NextReader ==
    \/ WriterLock /\ UNCHANGED restOfReader
    \/ WriterCopyBegin /\ UNCHANGED restOfReader
    \/ WriterCopyEnd /\ UNCHANGED restOfReader
    \/ WriterUnlock /\ UNCHANGED restOfReader
    \/ ReaderReturnsEarly(0) /\ UNCHANGED restOfReader
    \/ ReaderLock /\ UNCHANGED restOfReader
    \/ \E max_results \in {1, PROBE_HISTORY_SIZE, PROBE_HISTORY_SIZE + 1} :
          ReaderCopy(max_results) /\ UNCHANGED restOfReader
    \/ ReaderUnlock /\ UNCHANGED restOfReader

SpecReader == Init /\ [][NextReader]_vars


\* ---- dequeuers with timeouts, the SIP receive loop enqueueing, the clock
\* timeouts of the callers; the clock moves a quarter of its range at a time
TimeoutsMs == {0, 500, 1500}
TickMs == MaxClockMs \div 4

NextWait ==
    \/ \E t \in Dequeuers, timeout_ms \in TimeoutsMs :
          DequeueCall(t, timeout_ms) /\ UNCHANGED restOfWait
    \/ \E t \in Dequeuers :
          DequeueTake(t, MAX_RESPONSE_SIZE) /\ UNCHANGED restOfWait
    \/ \E t \in Dequeuers : DequeueWait(t) /\ UNCHANGED restOfWait
    \/ \E t \in Dequeuers : DequeueTimeout(t) /\ UNCHANGED restOfWait
    \/ \E t \in Dequeuers : DequeueSpuriousWakeup(t) /\ UNCHANGED restOfWait
    \/ \E len \in {0, 100}, t \in Dequeuers :
          EnqueueAndSignal(len, t) /\ UNCHANGED restOfWait
    \/ ClockAdvances(TickMs) /\ UNCHANGED restOfWait

SpecWait == Init /\ [][NextWait]_vars


\* ---- one media probe: the phone's SIP responses and RTP packets
SipResponses ==
    {Trying, Ringing, SessionProgress, BusyHere, Decline, NotFound,
     RequestTerminated,
     OkLine \o FromHeader \o ToHeaderTagged \o Sdp,
     OkLine \o FromHeader \o ToHeaderTagged,
     OkLine \o FromHeader \o ToHeaderBare \o Sdp}
\* a response follows the last one after a second
GapMs == invite_timeout_ms \div 5
\* sequence numbers of the phone's packets, on both sides of the wrap
RtpSeqs == {0, 1, 2, 3, 4, 65535}

NextCall ==
    \/ \E sent_ok \in BOOLEAN : CallStart(sent_ok) /\ UNCHANGED restOfCall
    \/ \E response \in SipResponses :
          InviteRecv(response, GapMs) /\ UNCHANGED restOfCall
    \/ InviteTimeout /\ UNCHANGED restOfCall
    \/ CallAnswered /\ UNCHANGED restOfCall
    \/ \E seq \in RtpSeqs : RtpArrive(seq, 172) /\ UNCHANGED restOfCall
    \/ CallFinish /\ UNCHANGED restOfCall

SpecCall == Init /\ [][NextCall]_vars

\* the same where the probe keeps running and the phone keeps sending
SpecCallFair == SpecCall /\ WF_vars(NextCall)


\* ---- the responder thread and a call of mesh_monitor_shutdown
ShutdownSteps == JoinBegin \/ JoinStopEngine \/ JoinFinish
ResponderSteps == \E recv \in RecvOutcomes : RespAdvance(recv)

NextJoin ==
    \/ JoinBegin /\ UNCHANGED restOfJoin
    \/ JoinStopEngine /\ UNCHANGED restOfJoin
    \/ JoinFinish /\ UNCHANGED restOfJoin
    \/ \E recv \in RecvOutcomes : RespAdvance(recv) /\ UNCHANGED restOfJoin

\* both threads keep being scheduled
SpecJoin ==
    /\ Init /\ [][NextJoin]_vars
    /\ WF_vars(ShutdownSteps /\ UNCHANGED restOfJoin)
    /\ WF_vars(ResponderSteps /\ UNCHANGED restOfJoin)


\* ---- the remote reporter thread and its shutdown
ReporterSteps ==
    ReporterStart \/ ReporterTest \/ ReporterReport \/ ReporterSleep

NextReporter ==
    \/ ReporterStart /\ UNCHANGED restOfReporter
    \/ ReporterTest /\ UNCHANGED restOfReporter
    \/ ReporterReport /\ UNCHANGED restOfReporter
    \/ ReporterSleep /\ UNCHANGED restOfReporter
    \/ RemoteReporterShutdown /\ UNCHANGED restOfReporter

\* the reporter thread keeps being scheduled
SpecReporter ==
    /\ Init /\ [][NextReporter]_vars
    /\ WF_vars(ReporterSteps /\ UNCHANGED restOfReporter)


\* ---- mesh_monitor_init under every configuration and every failure of
\* its steps
BootConfigs == [enabled : BOOLEAN,
                mode : {MONITOR_MODE_DISABLED, MONITOR_MODE_LIGHTWEIGHT,
                        MONITOR_MODE_FULL},
                routing_daemon : {ROUTING_AUTO, ROUTING_OLSR, ROUTING_BABEL}]
NextBoot ==
    \/ \E file \in CacheFiles \ {NoCacheFile} :
          BootCacheFileFound(file) /\ UNCHANGED restOfBoot
    \/ \E config \in BootConfigs : MeshMonitorInit(config) /\ UNCHANGED restOfBoot
    \/ \E olsrd_pid, babeld_pid \in BOOLEAN :
          InitRoutingAdapter(olsrd_pid, babeld_pid) /\ UNCHANGED restOfBoot
    \/ \E failed \in EngineOutcomes : InitProbeEngine(failed) /\ UNCHANGED restOfBoot
    \/ InitAgentDiscovery /\ UNCHANGED restOfBoot
    \/ \E created \in BOOLEAN : InitResponderThread(created) /\ UNCHANGED restOfBoot
SpecBoot == InitBeforeBoot /\ [][NextBoot]_vars

(***************************************************************************)
(* Claims about the probe engine.                                          *)
(***************************************************************************)
NoDuplicates(s) == \A i, j \in 1 .. Len(s) : i # j => s[i] # s[j]

\* C1: every pending probe has exactly one outcome: it gives one RTT sample or
\* it is dropped when its target's entries are cleared. No pending probe gives
\* more than one RTT sample to a window (a duplicated echo is not counted twice).
C1_OneOutcomePerProbe ==
    (result.called /\ result.ret = 0) =>
        /\ NoDuplicates(window.matched)
        /\ \A i \in 1 .. Len(pending_probes) : pending_probes[i].dst_ip # window.dst_ip

\* C2: for a non-empty window, loss_pct = 100 * (1 - received / sent), with
\* sent the probes pending for the target and received the echoes matched,
\* whatever else the pending table holds.
C2_LossFormula ==
    (result.called /\ result.ret = 0 /\ window.sent_to_target > 0) =>
        RatEq(result.loss_pct,
              Rat(100 * (window.sent_to_target - result.rtt_count),
                  window.sent_to_target))

(***************************************************************************)
(* Claims about the scheduler.                                             *)
(***************************************************************************)
\* The scheduler stores the result of the window it has just measured
RecordsWindow ==
    /\ stored' = Append(stored, StoredResult(result))
    /\ probe_history'[probe_history_index] = StoredResult(result)
    /\ \A k \in 0 .. PROBE_HISTORY_SIZE - 1 :
          k # probe_history_index => probe_history'[k] = probe_history[k]

\* C3: after probes were sent to a target, a window in which no echo matches
\* ends with calculate_probe_metrics returning 0 with loss_pct = 100,
\* rtt_ms_avg = 0 and jitter_ms = 0, and the scheduler stores exactly one result
\* for that target in the history ring: the ring changes only in the step that
\* closes a window, and that step appends the window's result.
C3_SilentWindowIsFullLoss ==
    /\ [](sched_pc = "measured" /\ result.rtt_count = 0 =>
             /\ result.ret = 0
             /\ RatEq(result.loss_pct, Rat(100, 1))
             /\ RatEq(result.rtt_ms_avg, Rat(0, 1))
             /\ RatEq(result.jitter_ms, Rat(0, 1))
             /\ result.dst_ip = agents[sched_i])
    /\ [][ /\ (sched_pc = "measured" /\ sched_pc' # "measured"
                 /\ result.rtt_count = 0) => RecordsWindow
           /\ (stored' # stored \/ probe_history' # probe_history) =>
                 (sched_pc = "measured" /\ sched_pc' # "measured"
                    /\ Len(stored') = Len(stored) + 1) ]_vars

\* C3 happens: the ring holds one result, that of a silent window
C3_Witness ==
    /\ Len(stored) = 1
    /\ probe_history[0] = stored[1]
    /\ RatEq(stored[1].loss_pct, Rat(100, 1))
    /\ RatEq(stored[1].rtt_ms_avg, Rat(0, 1))
    /\ sched_pc = "send"

\* C8: once mesh_monitor_shutdown has returned, the scheduler thread
\* eventually leaves its loop and exits, however its start-up interleaves
\* with the shutdown.
C8_SchedulerExitsAfterShutdown ==
    (shut_pc = "returned") ~> (sched_pc = "exited")

\* C8, second sentence: once the shutdown has completed no probe is sent and
\* no result is recorded.
C8_QuietAfterShutdown ==
    [][shut_pc = "returned" =>
          stored' = stored /\ pending_probes' = pending_probes]_vars

(***************************************************************************)
(* Claims about the responder.                                             *)
(***************************************************************************)
\* C4: every datagram the responder sends goes to the return IP and return
\* port carried in the payload of the probe it answers, whatever the UDP
\* source of that probe was, and a probe whose return_ip is not a valid IPv4
\* address is not echoed.
C4_EchoToEmbeddedAddress ==
    resp_last.handled =>
        /\ resp_last.echoed =>
              /\ InetPton(resp_last.dg.return_ip).ok
              /\ resp_last.to.addr = InetPton(resp_last.dg.return_ip).addr
              /\ resp_last.to.port = resp_last.dg.return_port
        /\ ~InetPton(resp_last.dg.return_ip).ok => ~resp_last.echoed

\* C4 happens: a probe was echoed whose UDP source differs from its embedded
\* return address in both address and port
C4_Witness ==
    /\ resp_last.handled
    /\ resp_last.echoed
    /\ resp_last.dg.src.addr # resp_last.to.addr
    /\ resp_last.dg.src.port # resp_last.to.port

\* C4 happens: a probe with an invalid return_ip was read and dropped
C4_WitnessInvalid ==
    /\ resp_last.handled
    /\ resp_last.dg.n = SizeofProbePacket
    /\ ~InetPton(resp_last.dg.return_ip).ok
    /\ ~resp_last.echoed

(***************************************************************************)
(* Claims about the health monitor.                                        *)
(***************************************************************************)
\* the thread waits for g_health_mutex and is the one that holds it
WaitsForOwnLock(t) == AtLock(t) /\ g_health_mutex = t

\* C6: no health-monitor operation (periodic_health_check, get_health_summary,
\* populate_agent_health, export_health_to_json, log_health_status) blocks
\* forever: no thread running one of them waits to acquire g_health_mutex
\* while it holds it already.
C6_NoSelfDeadlock ==
    \A t \in HealthThreads : ~InHandler(t) => ~WaitsForOwnLock(t)

\* C7: a crash signal handler never blocks, whatever the interrupted thread
\* was doing, g_health_mutex held included: the handler never waits for
\* g_health_mutex while its own thread holds it.
C7_HandlerNeverBlocks ==
    \A t \in HealthThreads : InHandler(t) => ~WaitsForOwnLock(t)

\* C7, last sentence: crash_signal_handler never returns without re-raising
C7_HandlerReraises ==
    [][\A t \in HealthThreads :
          (InHandler(t) /\ ~InHandler(t)') => process' = "killed"]_vars

(***************************************************************************)
(* Claims about the exporters.                                             *)
(***************************************************************************)
\* C5: at every point in time, a stop of the process at any step of an export
\* included, the destination path of export_network_to_json and of
\* export_health_to_json does not exist or holds a complete document.
C5_PublishedFileComplete ==
    \A e \in Exporters :
        files[ExportPath[e]] = Absent \/ IsComplete(files[ExportPath[e]])

(***************************************************************************)
(* Claims about the SIP response queue.                                    *)
(***************************************************************************)
\* The undelivered messages, oldest first: the entries from the read index up
\* to the write index
QueueContents(queue, read, write) ==
    [k \in 1 .. (write - read + MAX_RESPONSE_QUEUE) % MAX_RESPONSE_QUEUE |->
        queue[(read + k - 1) % MAX_RESPONSE_QUEUE].id]

\* C9: the queue delivers messages in the order they were enqueued. A message
\* enqueued on a full queue (no free slot behind the write index) discards
\* exactly the oldest undelivered message and is appended; otherwise it is
\* appended and nothing is discarded; a dequeue takes the oldest undelivered
\* message; the messages that stay keep their order.
C9_FifoDropsOldest ==
    [][ LET old == QueueContents(g_response_queue, g_response_queue_read,
                                 g_response_queue_write)
            new == QueueContents(g_response_queue', g_response_queue_read',
                                 g_response_queue_write')
        IN /\ enqueued' # enqueued =>
                 new = IF Len(old) = MAX_RESPONSE_QUEUE - 1
                       THEN Append(Tail(old), enqueued')
                       ELSE Append(old, enqueued')
           /\ delivered' # delivered =>
                 /\ old # <<>>
                 /\ dequeue_ret'.id = Head(old)
                 /\ new = Tail(old)
           /\ (enqueued' = enqueued /\ delivered' = delivered) => new = old
      ]_vars

\* C9 happens: a message was discarded on a full queue and a later dequeue
\* delivered a message
C9_Witness ==
    /\ enqueued - delivered
          > Len(QueueContents(g_response_queue, g_response_queue_read,
                              g_response_queue_write))
    /\ dequeue_ret.called
    /\ dequeue_ret.ret > 0

(***************************************************************************)
(* Claims about the history ring.                                          *)
(***************************************************************************)
Min(a, b) == IF a < b THEN a ELSE b

\* C10: the ring holds at most PROBE_HISTORY_SIZE results, and they are the
\* most recently recorded ones: the k-th slot behind probe_history_index holds
\* the k-th newest result, for every k up to PROBE_HISTORY_SIZE, so a store
\* into a full ring overwrites the oldest result present.
C10_RingKeepsNewest ==
    LET n == Len(stored)
        held == {i \in 0 .. PROBE_HISTORY_SIZE - 1 : probe_history[i] # EmptySlot}
    IN /\ Cardinality(held) = Min(n, PROBE_HISTORY_SIZE)
       /\ \A k \in 1 .. Min(n, PROBE_HISTORY_SIZE) :
             probe_history[(probe_history_index - k + PROBE_HISTORY_SIZE)
                              % PROBE_HISTORY_SIZE] = stored[n - k + 1]

\* C10 happens: the ring has been full and five results were overwritten
C10_Witness ==
    /\ Len(stored) = PROBE_HISTORY_SIZE + 5
    /\ probe_history[4] = stored[PROBE_HISTORY_SIZE + 5]
    /\ probe_history[5] = stored[6]

C11_WitnessGet ==
    /\ disc_ret.op = "get"
    /\ disc_ret.max > MAX_DISCOVERED_AGENTS
    /\ disc_ret.ret = MAX_DISCOVERED_AGENTS

\* a line of the cache file in one of the two formats: mesh_ip,lan_ip,node,epoch
\* or mesh_ip,node,epoch
WellFormedLine(line) ==
    /\ Len(line) \in {3, 4}
    /\ \A k \in 1 .. Len(line) : line[k] # EmptyText
    /\ line[Len(line)].num >= 0
    /\ line[Len(line)].rest = ""
\* the entry such a line stands for
EntryOfLine(line) ==
    [ip |-> line[1], node |-> line[Len(line) - 1],
     last_seen |-> line[Len(line)].num, is_active |-> TRUE]
RECURSIVE EntriesOfLines(_, _, _)
EntriesOfLines(lines, i, loaded) ==
    IF i > Len(lines) \/ Len(loaded) >= MAX_DISCOVERED_AGENTS THEN loaded
    ELSE EntriesOfLines(lines, i + 1,
             IF WellFormedLine(lines[i])
             THEN Append(loaded, EntryOfLine(lines[i])) ELSE loaded)
\* saving and loading again gives the entries the cache holds
RoundTrips(entries) ==
    LoadAgentCache(SaveAgentCache(NoCacheFile, entries, TRUE).file,
                   <<>>).entries = entries

\* C12: after a load of the cache file, each well-formed line of either
\* format has produced its one entry, and saving and loading again yields
\* the same entries.
C12_CacheRoundTrip ==
    disc_ret.op \in {"init", "load"} /\ cache_file.exists
       => /\ agent_entries = EntriesOfLines(cache_file.lines, 1, <<>>)
          /\ RoundTrips(agent_entries)
\* the round trip alone: what was loaded is what a save and a load give back
C12_LoadedRoundTrips ==
    disc_ret.op \in {"init", "load"} => RoundTrips(agent_entries)

(***************************************************************************)
(* The pending-probe table: its keys.                                      *)
(***************************************************************************)
\* C13: at every moment no two entries of the pending-probe table have the
\* same pair (target address, sequence number), two bursts to one target
\* with no measurement between them included.
C13_PendingKeysUnique ==
    \A i, j \in DOMAIN pending_probes :
        i # j => <<pending_probes[i].dst_ip, pending_probes[i].sequence>>
                    # <<pending_probes[j].dst_ip, pending_probes[j].sequence>>

(***************************************************************************)
(* The health score and thread liveness.                                   *)
(***************************************************************************)
\* the score calculate_health_score returns for the records as they stand
ScoreNow ==
    CalculateHealthScore(health_enabled, g_thread_health, leak_suspected,
                         crash_count_24h, restart_count, g_error_tracker)

\* C14: whatever the health records hold, calculate_health_score returns a
\* value in [0, 100], and is_system_healthy answers true exactly when the
\* score is at least 80 (a health summary is never filled in with another
\* answer).
C14_ScoreInRangeAndHealthy ==
    /\ health_ret.op = "score"
          => health_ret.score >= 0 /\ health_ret.score <= 100
    /\ health_ret.op = "healthy" => (health_ret.healthy <=> ScoreNow >= 80)
\* a score was asked for with deductions of more than 100 points
C14_Witness ==
    /\ health_ret.op = "score"
    /\ health_ret.score = 0
    /\ Cardinality(Unresponsive(g_thread_health)) = MAX_THREADS
    /\ leak_suspected
    /\ restart_count > 5
\* is_system_healthy was asked with the score at 80 exactly, and below
C14_WitnessAtEighty ==
    health_ret.op = "healthy" /\ health_ret.healthy /\ ScoreNow = 80
C14_WitnessUnhealthy ==
    health_ret.op = "healthy" /\ ~health_ret.healthy /\ ScoreNow = 79

\* the deductions of the score other than the one for errors
Deductions ==
    20 * Cardinality(Unresponsive(g_thread_health))
        + (IF leak_suspected THEN 15 ELSE 0) + 10 * crash_count_24h
        + (IF restart_count > 5 THEN 10 ELSE 0)

\* C15: the score is max(0, 100 - 20 per registered thread marked
\* non-responsive - 15 if a leak is suspected - 10 per crash - 10 if
\* restart_count > 5 - the number of errors recorded in the current hour).
C15_ScoreFormula ==
    health_ret.op = "score" /\ health_enabled
       => health_ret.score
             = (IF 100 - Deductions - errors_recorded > 0
                THEN 100 - Deductions - errors_recorded ELSE 0)
\* the same with the hourly counters in the place of the errors recorded,
\* and the example: 4 threads with 1 not responsive, a leak, 2 crashes,
\* 6 restarts and 3 errors in the hourly counters give 32, not healthy
C15_ScoreFromCounters ==
    /\ health_ret.op = "score" /\ health_enabled
          => health_ret.score
                = (IF 100 - Deductions - GetHourlyErrorRate(g_error_tracker) > 0
                   THEN 100 - Deductions - GetHourlyErrorRate(g_error_tracker)
                   ELSE 0)
    /\ LET table == [i \in ThreadIds |->
                        [tid |-> Tid(i), last_heartbeat |-> 0,
                         is_responsive |-> i # 2]]
           tracker == [NoErrors EXCEPT !.sip_errors_per_hour = 2,
                                       !.fetch_failures_per_hour = 1,
                                       !.total_errors_24h = 3]
       IN  /\ CalculateHealthScore(TRUE, table, TRUE, 2, 6, tracker) = 32
           /\ ~IsSystemHealthy(TRUE, table, TRUE, 2, 6, tracker)

\* the thread with identifier t is registered in slot i
RegisteredIn(t, i) == g_thread_health[i].tid = Tid(t)

\* C16: a registered thread whose last update_thread_heartbeat call with its
\* own identifier is no older than THREAD_TIMEOUT_SECONDS is not marked
\* non-responsive, whatever the order of registration (so a thread that
\* keeps calling is never marked, and one that was marked is responsive
\* again after its next heartbeat).
C16_HeartbeatKeepsResponsive ==
    \A t \in ThreadIds, i \in ThreadIds :
        RegisteredIn(t, i) /\ htime - beat_at[t] <= THREAD_TIMEOUT_SECONDS
           => g_thread_health[i].is_responsive
\* the same for the threads whose slot is the one their identifier names
C16_OwnSlotKeepsResponsive ==
    \A t \in ThreadIds :
        RegisteredIn(t, t) /\ htime - beat_at[t] <= THREAD_TIMEOUT_SECONDS
           => g_thread_health[t].is_responsive
\* a sweep leaves every registered slot whose heartbeat is older than the
\* timeout marked non-responsive
C16_SweepMarksStale ==
    [][CheckThreadResponsiveness
          => \A i \in ThreadIds :
                /\ g_thread_health[i].tid # 0
                /\ htime - g_thread_health[i].last_heartbeat
                      > THREAD_TIMEOUT_SECONDS
                => ~g_thread_health'[i].is_responsive]_vars

(***************************************************************************)
(* The phone quality cycle.                                                *)
(***************************************************************************)
\* C17: the quality monitor holds registered_users_mutex only while it
\* copies the user table: no DNS lookup, SIP probe or sleep is in progress
\* while it holds the lock, so a registrar never waits for the lock during
\* a network operation.
C17_NoNetworkUnderLock ==
    qm_pc \in {"dns", "probe", "sleep"} => registered_users_mutex # "quality"
\* the probe and the delays do run with the lock released
C17_ProbeOutsideLock ==
    qm_pc \in {"probe", "sleep"} => registered_users_mutex # "quality"

\* C18: a reader of /tmp/phone_quality.json sees, at any moment of a cycle,
\* a complete document (the previous or the new one), never an empty or
\* partly written file.
C18_QualityFileComplete ==
    quality_file # Absent => IsComplete(quality_file)

(***************************************************************************)
(* The scheduler's discovery cycle and its choice of targets.              *)
(***************************************************************************)
\* a scan was started in the discovery interval that ends now
ScannedThisInterval ==
    mm_now >= AGENT_DISCOVERY_INTERVAL_S
       => /\ last_scan_at >= 0
          /\ mm_now - last_scan_at <= AGENT_DISCOVERY_INTERVAL_S
\* C19: while the scheduler runs, a discovery scan is started at least once
\* in every discovery interval of 3600 s, and a scan is started in any
\* probe cycle that finds the agent cache empty.
C19_DiscoveryRuns ==
    mm_pc = "loop"
       => /\ ScannedThisInterval
          /\ (probe_cycle # NoProbeCycle /\ probe_cycle.found = <<>>)
                => probe_cycle.scanned
\* the interval half alone: with agents in the cache no scan ever starts
C19_PeriodicScan == mm_pc = "loop" => ScannedThisInterval
\* what the code does on an empty cache: the scan starts when the last
\* one (or the thread's start) is more than 60 s old
C19_OnDemandAfterHoldoff ==
    (probe_cycle # NoProbeCycle /\ probe_cycle.found = <<>>)
       => (probe_cycle.scanned
              <=> last_scan_at = probe_cycle.at /\ probe_cycle.at > DiscoveryHoldoff)

\* C20: a probe cycle probes targets in cache order and at most
\* neighbour_targets of them; the agents beyond that number are not probed
\* in that cycle.
C20_AtMostNeighbourTargets ==
    probe_cycle # NoProbeCycle
       => probe_cycle.probed
             = CycleTargetsTruncated(probe_cycle.found, neighbor_targets)
\* the targets of a cycle are the cached agents in cache order
C20_CacheOrder ==
    probe_cycle # NoProbeCycle => probe_cycle.probed = probe_cycle.found

(***************************************************************************)
(* The memory record.                                                      *)
(***************************************************************************)
\* C21: in every state of the memory record, leak_suspected implies
\* current_rss > 1.5 x initial_rss and growth_rate_mb_per_hour > 0.1.
C21_LeakImpliesGrowth ==
    leak_suspected
       => /\ 2 * g_memory_health.current_rss > 3 * g_memory_health.initial_rss
          /\ g_memory_health.growth.kb
                > (1024 * g_memory_health.growth.s) \div 36000
\* a leak is suspected after a check that saw the process grow
C21_Witness ==
    /\ leak_suspected
    /\ g_memory_health.last_check > 0
    /\ g_memory_health.current_rss = 2 * InitialRssKb
\* a leak is suspected while the process shrinks: the unsigned difference
\* has wrapped to a large growth
C21_WitnessShrinking ==
    /\ leak_suspected
    /\ g_memory_health.current_rss < g_memory_health.peak_rss

(***************************************************************************)
(* Link classification.                                                    *)
(***************************************************************************)
\* chars begins with the characters of prefix
BeginsWith(chars, prefix) ==
    /\ Len(chars) >= Len(prefix)
    /\ \A i \in 1 .. Len(prefix) : chars[i] = prefix[i]
\* the documented table of link types
LinkTypeOf(interface) ==
    CASE interface.null -> "unknown"
      [] ~interface.null /\ BeginsWith(interface.name, <<"w", "l", "a", "n">>)
            -> "RF"
      [] ~interface.null /\ BeginsWith(interface.name, <<"t", "u", "n">>)
            -> "tunnel"
      [] ~interface.null /\ BeginsWith(interface.name, <<"e", "t", "h">>)
            -> "ethernet"
      [] ~interface.null /\ BeginsWith(interface.name, <<"b", "r", "-">>)
            -> "bridge"
      [] OTHER -> "unknown"
\* C22: classify_link_type is a pure and total function of the interface
\* name: wlan gives RF, tun tunnel, eth ethernet, br- bridge, every other
\* name and the null name unknown; equal inputs give equal outputs.
C22_LinkTypeTable ==
    /\ link_call.called => link_call.ret = LinkTypeOf(link_call.interface)
    /\ (link_call.called /\ link_prev.called
          /\ link_call.interface = link_prev.interface)
          => link_call.ret = link_prev.ret
\* a bridge was classified, after the same name had been classified before
C22_Witness ==
    /\ link_call.called /\ link_prev.called
    /\ link_call.interface = link_prev.interface
    /\ link_call.ret = "bridge"
\* the null name and a name that only resembles a prefix give unknown
C22_WitnessUnknown ==
    /\ link_call.called /\ link_call.interface.null
    /\ link_prev.called /\ link_prev.interface = NameOf(<<"b", "r", "0">>)
    /\ link_prev.ret = "unknown"

(***************************************************************************)
(* The pending table across bursts and windows.                            *)
(***************************************************************************)
\* this step is calculate_probe_metrics(t, ...) called right after a
\* send_probes(t, ...) that sent a packet, with the same argument t
CalcFollowsSend ==
    /\ send_ret.called /\ send_ret.ret > 0
    /\ result'.called /\ result'.dst_ip = send_ret.dst_hostname
\* C23: after send_probes(t, ...) followed by calculate_probe_metrics(t, ...)
\* with the same target argument, none of the pending probes that send
\* recorded remain in the pending table.
C23_WindowClearsItsProbes ==
    [][CalcFollowsSend
          => \A i \in 1 .. Len(pending_probes') :
                pending_probes'[i].dst_ip # DNS[send_ret.dst_hostname]]_vars
\* the same for a target that is the address its name resolves to
C23_ClearedWhenResolvedToItself ==
    [][(CalcFollowsSend /\ DNS[send_ret.dst_hostname] = send_ret.dst_hostname)
          => \A i \in 1 .. Len(pending_probes') :
                pending_probes'[i].dst_ip # send_ret.dst_hostname]_vars

\* the datagrams a calculate_probe_metrics step reads that echo a probe of
\* the window it ends
EchoesOfThisWindow ==
    {j \in 1 .. Len(probe_rx) - Len(probe_rx') : rx_window[j] = window_no}
\* C24: every RTT sample counted in a window comes from an echo of a probe
\* sent in that same window: a late echo of a probe of an earlier burst to
\* the same target is never matched against a pending probe of the current
\* burst.
C24_SamplesFromThisWindow ==
    [][(result'.called /\ result'.ret = 0 /\ window_no' = window_no + 1)
          => result'.rtt_count <= Cardinality(EchoesOfThisWindow)]_vars
\* no more samples are counted than datagrams were read
C24_SamplesFromDatagrams ==
    [][(result'.called /\ result'.ret = 0 /\ window_no' = window_no + 1)
          => result'.rtt_count <= Len(probe_rx) - Len(probe_rx')]_vars

\* the table without the entries of one target, the others in their order
WithoutTarget(pend, target) == SelectSeq(pend, LAMBDA e : e.dst_ip # target)
\* C25: when calculate_probe_metrics(target) returns 0 it has removed from
\* the pending table exactly the entries whose target address equals target,
\* the others staying unchanged and in the same order; when it returns -1
\* the table is unchanged.
C25_ClearsOnlyItsTarget ==
    [][result'.called
          => pending_probes' =
                IF result'.ret = 0
                THEN WithoutTarget(pending_probes, result'.dst_ip)
                ELSE pending_probes]_vars
\* a window returned 0, removed entries of its target and left those of
\* another target
C25_Witness ==
    /\ result.called /\ result.ret = 0
    /\ window.sent_to_target > 0
    /\ window.expected > window.sent_to_target
    /\ Len(pending_probes) = window.expected - window.sent_to_target
\* a call on the empty table returned -1
C25_WitnessEmpty ==
    /\ result.called /\ result.ret = -1
    /\ pending_probes = <<>>

\* C26: in every state 0 <= pending_probe_count <= MAX_PENDING_PROBES, and
\* the value a successful send_probes call returns is the number of pending
\* entries the call added to the table.
C26_ReturnCountsPending ==
    /\ pending_probe_count >= 0
    /\ pending_probe_count <= MAX_PENDING_PROBES
    /\ (send_ret.called /\ send_ret.ret >= 0) => send_ret.ret = send_ret.added
\* the table stays within its capacity, and a call adds no more entries
\* than it reports as sent
C26_TableBounded ==
    /\ pending_probe_count >= 0
    /\ pending_probe_count <= MAX_PENDING_PROBES
    /\ (send_ret.called /\ send_ret.ret >= 0) => send_ret.added <= send_ret.ret

(***************************************************************************)
(* The order of the steps of a probe cycle.                                *)
(***************************************************************************)
\* the calls logged for target i, in order
StepsOf(i) ==
    LET mine == SelectSeq(ord_log, LAMBDA c : c.target = i)
    IN [k \in 1 .. Len(mine) |-> mine[k].step]
TargetSteps == <<"send", "wait", "measure", "hops", "record">>
IsPrefix(s, t) == Len(s) <= Len(t) /\ s = SubSeq(t, 1, Len(s))
Exports == SelectSeq(ord_log, LAMBDA c : c.step = "export")
ReturnOf(step, i) ==
    LET hits == SelectSeq(ord_log, LAMBDA c : c.step = step /\ c.target = i)
    IN hits[1].ret
\* C27: within a probe cycle the steps for each target occur in the order
\* send burst, wait the probe window, measure, annotate hops, record; a
\* result is recorded only if a probe was sent and the measurement returned
\* 0; export_network_to_json is called exactly once per cycle, after all
\* targets were processed.
C27_CycleOrder ==
    /\ \A i \in 1 .. Len(ord_agents) :
          /\ IsPrefix(StepsOf(i), TargetSteps)
          /\ "record" \in {StepsOf(i)[k] : k \in 1 .. Len(StepsOf(i))}
                => ReturnOf("send", i) > 0 /\ ReturnOf("measure", i) = 0
    /\ \A j, k \in 1 .. Len(ord_log) :
          (j < k /\ ord_log[j].target > 0 /\ ord_log[k].target > 0)
             => ord_log[j].target <= ord_log[k].target
    /\ \A k \in 1 .. Len(ord_log) :
          (ord_log[k].step = "wait") => ord_log[k].ret = probe_window_s
    /\ Len(Exports) <= 1
    /\ Len(Exports) = 1
          => /\ ord_log[Len(ord_log)].step = "export"
             /\ \A i \in 1 .. Len(ord_agents) : Len(StepsOf(i)) \in {1, 3, 5}
    /\ (ord_pc = "idle" /\ ord_cycles > 0) => Len(Exports) = 1
\* a cycle over two targets ended: the first got no probe out, the second
\* was measured and recorded, then the export ran
C27_Witness ==
    /\ ord_pc = "idle" /\ ord_cycles > 0
    /\ Len(ord_agents) = 2
    /\ StepsOf(1) = <<"send">>
    /\ StepsOf(2) = TargetSteps
    /\ ord_log[Len(ord_log)].step = "export"

(***************************************************************************)
(* C28: get_recent_probes returns min(max_results, non-empty slots)        *)
(* results, newest first, never an empty or partly written slot, and       *)
(* leaves the ring as it was.                                              *)
(***************************************************************************)
\* The non-empty slots of the ring
FilledSlots ==
    {i \in DOMAIN probe_history : probe_history[i].timestamp # 0}

\* The newest n complete results, most recent first
NewestFirst(n) == [k \in 1 .. n |-> stored[Len(stored) - k + 1]]

\* C28: every call of get_recent_probes leaves the ring and its index
\* unchanged and returns, most recent first, the newest
\* min(max_results, number of non-empty slots) results, each of them a
\* result that was stored whole
C28_RecentNewestFirst ==
    [][recent' # recent /\ recent'.called
         => /\ UNCHANGED <<probe_history, probe_history_index>>
            /\ \A k \in DOMAIN recent'.results :
                  recent'.results[k].timestamp > 0
            /\ Len(recent'.results)
                  = Min(IF recent'.max_results > 0 THEN recent'.max_results
                        ELSE 0, Cardinality(FilledSlots))
            /\ recent'.results = NewestFirst(Len(recent'.results))]_vars

\* C28 witness: a reader holding the lock has taken a whole ring that has
\* wrapped
C28_Witness ==
    /\ rd_pc = "copied"
    /\ history_mutex = "reader"
    /\ Len(stored) > PROBE_HISTORY_SIZE
    /\ Len(recent.results) = PROBE_HISTORY_SIZE

\* C28 witness: a reader asked for more than the ring holds
C28_WitnessPartRing ==
    /\ rd_pc = "copied"
    /\ recent.max_results = PROBE_HISTORY_SIZE + 1
    /\ Len(recent.results) \in 1 .. PROBE_HISTORY_SIZE - 1

(***************************************************************************)
(* C29: the responder echoes no datagram shorter than a probe packet, and  *)
(* the echo of a longer datagram is cut to the size of a probe packet.     *)
(***************************************************************************)
\* C29: whatever the responder echoes came in a datagram of at least
\* sizeof(probe_packet_t) bytes, and the echo is exactly
\* sizeof(probe_packet_t) bytes long
C29_EchoIsPacketSized ==
    (resp_last.handled /\ resp_last.echoed) =>
        /\ resp_last.dg.n >= SizeofProbePacket
        /\ resp_last.len = SizeofProbePacket

\* C29, as the code has it: no short datagram is echoed, and the echo is as
\* long as what recvfrom delivered, the whole datagram or the whole buffer
C29_EchoIsWhatWasRead ==
    /\ (resp_last.handled /\ resp_last.dg.n < SizeofProbePacket)
          => ~resp_last.echoed
    /\ (resp_last.handled /\ resp_last.echoed)
          => resp_last.len = Recvfrom(resp_last.dg.n)

(***************************************************************************)
(* C30: quality_monitor_dequeue_response returns the oldest message at     *)
(* once, or a message enqueued before its deadline, or 0 at the deadline;  *)
(* no message is returned twice.                                           *)
(***************************************************************************)
\* The ids of the messages in the queue, oldest first
Queued ==
    QueueContents(g_response_queue, g_response_queue_read,
                  g_response_queue_write)

\* The threads a signal or a spurious wakeup took out of their wait and
\* that have not run yet
Woken == {t \in Dequeuers : dq[t].pc = "woken"}

\* The deadline of t's call: timeout_ms after the call
DeadlineMs(t) == dq[t].called_at + dq[t].timeout_ms

StatusCode(response) == response[2]

\* C31: during the wait a 100 or a 180 leaves send_invite waiting; a 200
\* ends the wait with SUCCESS, a 486 with BUSY, a 603, 404 or 487 with
\* SIP_ERROR; the receive timeout ends it with NO_ANSWER if a 180 came
\* before and with SIP_TIMEOUT if none did
C31_InviteOutcomes ==
    [][call_pc = "invite" =>
         LET e == invite_event'
             ended(status) == /\ call_pc' = "returned"
                              /\ call_ret' = -1
                              /\ call_status' = status
         IN IF e.kind = "timeout"
            THEN ended(IF "180" \in e.seen THEN "NO_ANSWER"
                                          ELSE "SIP_TIMEOUT")
            ELSE CASE StatusCode(e.response) \in {"100", "180"} ->
                         call_pc' = "invite"
                   [] StatusCode(e.response) = "200" ->
                         call_pc' = "answered" /\ call_status' = "SUCCESS"
                   [] StatusCode(e.response) = "486" -> ended("BUSY")
                   [] StatusCode(e.response) \in {"603", "404", "487"} ->
                         ended("SIP_ERROR")
                   [] OTHER -> TRUE]_vars

\* C31 witness: the wait ended with NO_ANSWER: 100, then 180, then nothing
C31_Witness ==
    /\ call_pc = "returned"
    /\ call_status = "NO_ANSWER"
    /\ invite_event.kind = "timeout"
    /\ {"100", "180"} \subseteq invite_event.seen

\* C31 witness: a 200 OK that followed a 180 ended the wait
C31_WitnessAnswered ==
    /\ call_pc = "answered"
    /\ call_status = "SUCCESS"
    /\ "180" \in invite_event.seen

(***************************************************************************)
(* C32: the wait for the final response to the INVITE always ends.         *)
(***************************************************************************)
\* C32: whenever send_invite waits for the answer to its INVITE, it later
\* returns, whatever datagrams keep arriving
C32_InviteWaitEnds == (call_pc = "invite") ~> (call_pc # "invite")

\* C32, as the code has it: the wait goes on past invite_timeout_ms only
\* while datagrams arrive; a receive that has timed out always ends it
C32_TimeoutEndsWait ==
    [][(call_pc = "invite" /\ invite_event'.kind = "timeout")
          => call_pc' = "returned"]_vars

\* C32: the wait has lasted longer than invite_timeout_ms twice over and
\* send_invite has still not returned
C32_StillWaiting ==
    /\ call_pc = "invite"
    /\ invite_waited > 2 * invite_timeout_ms

(***************************************************************************)
(* C33: a probe whose INVITE was answered sends ACK, then BYE, before      *)
(* test_phone_quality returns.                                             *)
(***************************************************************************)
\* The INVITE of this probe was answered with 200 OK
Answered200 == "200" \in SeenWith(invite_event)

\* C33: when test_phone_quality has returned from a probe whose INVITE was
\* answered with 200 OK, it has sent an ACK and after it a BYE
C33_AnsweredCallEnded ==
    (call_pc = "returned" /\ Answered200)
        => sip_sent = <<"INVITE", "ACK", "BYE">>

\* C33, as the code has it: the ACK and the BYE are sent when the 200 OK
\* carries a To tag, with or without SDP and whatever the media result
C33_TaggedCallEnded ==
    (call_pc = "returned" /\ Answered200 /\ ExtractToTag(sip_response) = 0)
        => sip_sent = <<"INVITE", "ACK", "BYE">>

\* C33: a probe answered without SDP has ended with NO_RR and its BYE sent
C33_NoSdpNoRr ==
    /\ call_pc = "returned"
    /\ Answered200
    /\ ParseSdp(sip_response) = -1
    /\ call_status = "NO_RR"
    /\ sip_sent = <<"INVITE", "ACK", "BYE">>

(***************************************************************************)
(* C39: the loss figures of a successful media probe.                      *)
(***************************************************************************)
\* C39: a probe that ends with SUCCESS reports a loss_fraction between 0
\* and 1 and packets_lost <= expected, expected being
\* highest_seq - first_seq + 1, whatever RTP packets it received
C39_LossWithinBounds ==
    loss_report.status = "SUCCESS" =>
        /\ loss_report.expected = U32(rtp_stats.highest_seq
                                         - rtp_stats.first_seq + 1)
        /\ loss_report.loss_fraction.den # U32(0)
        /\ U32Le(loss_report.loss_fraction.num,
                 loss_report.loss_fraction.den)
        /\ U32Le(loss_report.packets_lost, loss_report.expected)

\* C39, as the code has it: the figures are within bounds when no more
\* packets were counted than the sequence numbers from first to highest span
C39_BoundsWithoutSurplus ==
    (/\ loss_report.status = "SUCCESS"
     /\ rtp_stats.highest_seq >= rtp_stats.first_seq
     /\ rtp_stats.packets_received
           <= rtp_stats.highest_seq - rtp_stats.first_seq + 1)
        => /\ U32Le(loss_report.packets_lost, loss_report.expected)
           /\ loss_report.loss_fraction.den # U32(0)

\* C39: a probe has succeeded on five packets received in order
C39_InOrderProbe ==
    /\ loss_report.status = "SUCCESS"
    /\ rtp_stats.highest_seq >= rtp_stats.first_seq
    /\ rtp_stats.packets_received
           <= rtp_stats.highest_seq - rtp_stats.first_seq + 1

(***************************************************************************)
(* C34: mesh_monitor_shutdown returns: the responder thread leaves its     *)
(* loop once the engine is stopped, and the join completes.                *)
(***************************************************************************)
\* C34: a mesh_monitor_shutdown that has found monitoring enabled returns,
\* wherever the responder thread is when the engine is stopped
C34_ShutdownReturns == (shut_pc = "stop_engine") ~> (shut_pc = "returned")

\* C34 witness: the shutdown has returned after the responder, which had
\* sent echoes, left its loop
C34_Witness ==
    /\ shut_pc = "returned"
    /\ resp_pc = "exited"
    /\ responder_socket = -1
    /\ ~engine_running
    /\ resp_echoes > 0

\* C34 witness: the engine is stopped while the responder is about to call
\* recvfrom
C34_WitnessInReceive ==
    /\ shut_pc = "join"
    /\ resp_pc = "recv"
    /\ responder_socket = -1

(***************************************************************************)
(* C35: after remote_reporter_shutdown the reporter thread stops and       *)
(* sends no more reports.                                                  *)
(***************************************************************************)
\* C35: once remote_reporter_shutdown has been called the reporter thread
\* eventually leaves its loop, however its start-up interleaves with the call
C35_ReporterStops == (rep_shutdown # "no") ~> (rep_pc = "exited")

\* C35, as the code has it: the thread stops when the shutdown is called
\* after the thread has set reporter_running
C35_StopsOnceStarted == (rep_shutdown = "late") ~> (rep_pc = "exited")

\* C35: the thread, started after the shutdown was called, has sent
\* MaxReports reports since
C35_ReportsAfterShutdown ==
    /\ rep_shutdown = "early"
    /\ reporter_running
    /\ rep_sent = MaxReports

\* ---- C36, C37: what a discovery scan leaves in the cache
\* the slots of a cache that hold this address
SlotsOf(entries, ip) == {j \in 1 .. Len(entries) : entries[j].ip = ip}
\* the scan that has just returned left this address cached: as one new
\* entry when there was room, or in the slot it had, refreshed
Upserted(ip) ==
    LET was == SlotsOf(disc_ret.scan.before, ip)
        now == SlotsOf(agent_entries, ip)
    IN  IF was # {}
        THEN /\ now = was
             /\ Cardinality(now) = 1
             /\ \A j \in now :
                   /\ agent_entries[j].is_active
                   /\ agent_entries[j].last_seen >= disc_ret.scan.at
                   /\ agent_entries[j].node = disc_ret.scan.before[j].node
        ELSE Len(disc_ret.scan.before) < MAX_DISCOVERED_AGENTS
                => Cardinality(now) = 1
NoTwoEntriesOfOneAddress ==
    \A j, k \in 1 .. Len(agent_entries) :
       agent_entries[j].ip = agent_entries[k].ip => j = k
\* a scan ran while the endpoint of sysinfo.json answered
ScanWithEndpoint ==
    /\ disc_ret.op = "scan"
    /\ disc_ret.scan.sysinfo # "none"
    /\ disc_ret.scan.endpoint

\* C36: after a scan that ran while the endpoint of sysinfo.json answered,
\* every listed host that answers the agent test is in the cache, as a new
\* entry if there was room or as the single refreshed entry it had, and
\* after any scan no two entries of the cache have the same address.
C36_PassingHostCached ==
    /\ ScanWithEndpoint =>
          \A i \in 1 .. Len(disc_ret.scan.hosts) :
             IpText(disc_ret.scan.hosts[i].ip) \in disc_ret.scan.passing
                => Upserted(IpText(disc_ret.scan.hosts[i].ip))
    /\ disc_ret.op = "scan" => NoTwoEntriesOfOneAddress
\* What the scan does: it never gets sysinfo.json, returns -1 and leaves
\* the cache as it was, so no scan makes two entries of one address.
C36_ScanLeavesCacheAsItWas ==
    disc_ret.op = "scan" =>
       /\ disc_ret.scan.sysinfo # "ok"
       /\ disc_ret.ret = -1
       /\ agent_entries = disc_ret.scan.before
       /\ NoTwoEntriesOfOneAddress
\* the endpoint answered and listed a host that answers the test, and the
\* scan has returned without it although the cache has room
C36_PassingHostLeftOut ==
    /\ ScanWithEndpoint
    /\ Len(disc_ret.scan.before) < MAX_DISCOVERED_AGENTS
    /\ \E i \in 1 .. Len(disc_ret.scan.hosts) :
          /\ IpText(disc_ret.scan.hosts[i].ip) \in disc_ret.scan.passing
          /\ SlotsOf(agent_entries, IpText(disc_ret.scan.hosts[i].ip)) = {}

ScanFetchFailed == disc_ret.op = "scan" /\ disc_ret.scan.sysinfo = "fail"
\* C37: when sysinfo.json cannot be fetched the scan returns 0 and leaves the
\* cache and the cache file as they were.
C37_FetchFailureReturnsZero ==
    ScanFetchFailed =>
       /\ disc_ret.ret = 0
       /\ agent_entries = disc_ret.scan.before
       /\ cache_file = disc_ret.scan.file
\* What the scan does: it returns -1 and leaves the cache and the file as
\* they were.
C37_FetchFailureKeepsCache ==
    ScanFetchFailed =>
       /\ disc_ret.ret = -1
       /\ agent_entries = disc_ret.scan.before
       /\ cache_file = disc_ret.scan.file
\* a scan over a loaded cache could not fetch sysinfo.json
C37_FetchFailedOverCache ==
    ScanFetchFailed /\ Len(agent_entries) > 0 /\ cache_file.exists

(***************************************************************************)
(* Start-up of the mesh monitor.                                           *)
(***************************************************************************)
\* the components whose initialisation returned 0 in this call
InitialisedAtBoot ==
    {init_steps[k].step : k \in {j \in 1 .. Len(init_steps) : init_steps[j].ret = 0}}
BootStepFailed == \E k \in 1 .. Len(init_steps) : init_steps[k].ret # 0
MonitoringOff ==
    ~g_monitor_config.enabled \/ g_monitor_config.mode = MONITOR_MODE_DISABLED
\* the component is as it was before it was initialised
ShutDownAgain(component) ==
    CASE component = "routing_adapter" -> ~adapter_initialized
      [] component = "probe_engine" ->
            ~engine_running /\ probe_socket = -1 /\ responder_socket = -1
      [] component = "agent_discovery" -> ~discovery_initialized
      [] OTHER -> responder = "none"
NothingCreated ==
    /\ probe_socket = -1
    /\ responder_socket = -1
    /\ responder = "none"
    /\ init_steps = <<>>

\* C38: with monitoring disabled in the configuration mesh_monitor_init
\* returns 0, creates no socket and no thread and leaves monitoring disabled;
\* when a step fails it returns -1, every component initialised before that
\* step is shut down again, the probe engine is not running and monitoring
\* stays disabled.
C38_InitUndoneOnFailure ==
    init_pc = "returned" =>
       /\ MonitoringOff =>
             init_ret = 0 /\ NothingCreated /\ ~monitor_enabled
       /\ BootStepFailed =>
             /\ init_ret = -1
             /\ ~engine_running
             /\ ~monitor_enabled
             /\ \A component \in InitialisedAtBoot : ShutDownAgain(component)
\* What mesh_monitor_init does: the same, but for agent discovery, which is
\* left initialised when the thread cannot be created.
C38_EngineAndAdapterUndone ==
    init_pc = "returned" =>
       /\ MonitoringOff =>
             init_ret = 0 /\ NothingCreated /\ ~monitor_enabled
       /\ BootStepFailed =>
             /\ init_ret = -1
             /\ ~engine_running
             /\ ~monitor_enabled
             /\ \A component \in InitialisedAtBoot \ {"agent_discovery"} :
                   ShutDownAgain(component)
       /\ (~MonitoringOff /\ ~BootStepFailed) =>
             init_ret = 0 /\ monitor_enabled /\ engine_running
\* the responder thread could not be created and agent discovery is still
\* initialised after mesh_monitor_init returned -1
C38_DiscoveryLeftInitialised ==
    /\ init_pc = "returned"
    /\ init_ret = -1
    /\ init_steps[Len(init_steps)] = [step |-> "thread", ret |-> -1]
    /\ discovery_initialized
    /\ Len(agent_entries) > 0
\* probe_engine_init failed after the routing adapter was initialised
C38_BindFailed ==
    /\ init_pc = "returned"
    /\ init_ret = -1
    /\ init_steps[Len(init_steps)] = [step |-> "probe_engine", ret |-> -1]
    /\ "routing_adapter" \in InitialisedAtBoot
\* monitoring is disabled in the configuration and mesh_monitor_init returned
C38_DisabledReturned ==
    init_pc = "returned" /\ MonitoringOff /\ cache_file.exists

\* ---- C40: the growth rate of two consecutive samples
\* a monitor_memory_usage call made some seconds after the call before it
MemorySampled == htime' = htime /\ htime > g_memory_health.last_check
\* the resident set shrank from the sample before to this one
MemoryShrank == g_memory_health'.current_rss < g_memory_health.last_rss

\* C40: the growth rate monitor_memory_usage computes is (current_rss - the
\* rss of the sample before) over the seconds between the two samples, so it
\* is <= 0 when the resident set did not grow, and a sample in which the
\* resident set shrank never turns leak_suspected from false to true.
C40_GrowthIsSignedDifference ==
    [][MemorySampled =>
          /\ g_memory_health'.growth =
                [kb |-> g_memory_health'.current_rss - g_memory_health.last_rss,
                 s |-> htime - g_memory_health.last_check]
          /\ g_memory_health'.current_rss <= g_memory_health.last_rss
                => g_memory_health'.growth.kb <= 0
          /\ (MemoryShrank /\ ~leak_suspected) => ~leak_suspected']_vars
\* The second sentence alone.
C40_ShrinkNeverRaisesLeak ==
    [][(MemorySampled /\ MemoryShrank /\ ~leak_suspected)
          => ~leak_suspected']_vars
\* What monitor_memory_usage does: the difference is taken in size_t and
\* wraps when the resident set shrank; the rate is 0 for two equal samples.
C40_GrowthIsUnsignedDifference ==
    [][MemorySampled =>
          /\ g_memory_health'.growth =
                [kb |-> (g_memory_health'.current_rss
                            - g_memory_health.last_rss) % SizeWrapKb,
                 s |-> htime - g_memory_health.last_check]
          /\ g_memory_health'.current_rss = g_memory_health.last_rss
                => g_memory_health'.growth.kb = 0
          /\ MemoryShrank => g_memory_health'.growth.kb > 0]_vars
====
